---- MODULE Spec2Model ----
(***************************************************************************)
(* A model of the anchor / box-coding and loss pipeline of torch_object:   *)
(*   core/ssd/loss.py              SSDLoss                                 *)
(*   core/focal_loss.py            FocalLoss                               *)
(*   core/anchors.py               AnchorLayer, Anchors                    *)
(*   core/single_stage_detector.py SingleStageDetector                     *)
(*                                                                         *)
(* Tensors are functions over 1-based index ranges (index k of the model   *)
(* is index k-1 of the code).  Real numbers are fixed-point integers:      *)
(* loss values in thousandths (Milli), box geometry in quarters (Quarter), *)
(* the box coder's regression targets exact rationals.                     *)
(* A float result is a record [kind, v] so that the IEEE outcomes of a     *)
(* division by zero (NaN, Inf) are values of the model.                    *)
(***************************************************************************)
EXTENDS Integers, Sequences, FiniteSets, TLC

VARIABLES
    \* ---- SSDLoss / FocalLoss -------------------------------------------
    mode,          \* SSDLoss.mode: "focal", "ohem" or anything else ("ce")
    use_sigmoid,   \* SSDLoss.focal_loss is _sigmoid_focal_loss when TRUE
    use_iou,       \* SSDLoss.use_iou: bounded-IoU localization loss when TRUE
    loc_preds,     \* tensor object [N, #anchors, 4] held by the caller
    loc_targets,   \* tensor object [N, #anchors, 4] held by the caller
    cls_preds,     \* tensor object [N, #anchors, #classes] held by the caller
    cls_targets,   \* tensor object [N, #anchors] held by the caller
    lossCall,      \* the last loss call: its arguments as passed, its
                   \* intermediate masks and what it returned
    \* ---- AnchorLayer / Anchors -----------------------------------------
    coder,         \* the Anchors object: configuration and its AnchorLayers
    anchorCall,    \* the last Anchors.forward call: input and returned anchors
    \* ---- SingleStageDetector -------------------------------------------
    detector,      \* the constructed SingleStageDetector (or NoDetector)
    encoded,       \* the last labels handed to the assigner by its box coder
    \* ---- Anchors as box coder ------------------------------------------
    targets,       \* the list targets[t][i] of ground-truth rows held by the caller
    codecCall,     \* the last encode / decode call: its arguments and result
    preds,         \* the network outputs the caller holds for the decoder
    \* ---- recurrent cells ------------------------------------------------
    cell,          \* a ConvLSTMCell: its fields prev_h and prev_c
    cellCall,      \* the last calls of the cell's forward / reset, newest first
    rnn,           \* a ConvRNN: its cell key and its timepool
    rnnCall,       \* the last ConvRNN constructor / forward / reset call
    \* ---- moving MNIST streams -------------------------------------------
    env,           \* a MnistEnv: its step counter and its animations
    envCall,       \* the last MnistEnv.next call and what it returned
    batch,         \* the list of stream samples handed to collate_fn
    collated       \* what collate_fn returned for it

lossVars   == <<mode, use_sigmoid, use_iou, loc_preds, loc_targets, cls_preds, cls_targets, lossCall>>
anchorVars == <<coder, anchorCall>>
detVars    == <<detector, encoded>>
codecVars  == <<targets, codecCall, preds>>
rnnVars    == <<cell, cellCall, rnn, rnnCall>>
dataVars   == <<env, envCall, batch, collated>>
restVars   == <<rnnVars, dataVars>>
vars       == <<lossVars, anchorVars, detVars, codecVars, restVars>>

-----------------------------------------------------------------------------
(* Bounds of the model *)

BatchSize  == 2    \* N, batch elements of a loss call
NumAnchors == 5    \* #anchors of a loss call
NumClasses == 2    \* SSDLoss.num_classes (class 0 is background)
MaxLogit   == 1    \* class logits range over 0..MaxLogit
MaxPos     == 1    \* at most this many positive anchors in a batch
MaxIgn     == 1    \* at most this many ignored (-1) anchors in a batch
MaxHot     == 1    \* at most this many anchors with a non-default prediction

(* Program constants *)

NegPosRatio == 3   \* _hard_negative_mining: num_neg = 3*pos.sum(1)
LocDim      == 4   \* last dimension of loc_preds / loc_targets

Milli   == 10 * 10 * 10
Quarter == 2 * 2

-----------------------------------------------------------------------------
(* Arithmetic helpers *)

Abs(x) == IF x < 0 THEN -x ELSE x

Max2(a, b) == IF a >= b THEN a ELSE b

RECURSIVE SumSeq(_)
SumSeq(s) == IF s = <<>> THEN 0 ELSE Head(s) + SumSeq(Tail(s))

RECURSIVE MaxSeq(_)
MaxSeq(s) == IF Len(s) = 1 THEN s[1] ELSE Max2(Head(s), MaxSeq(Tail(s)))

\* truncating division (toward zero), as a float -> int cast and as
\* fixed-point rounding of a non-negative quantity
Quot(a, b) == IF a >= 0 THEN a \div b ELSE -((-a) \div b)

(* Float results *)
Fin(x) == [kind |-> "fin", v |-> x]
NaN    == [kind |-> "nan", v |-> 0]
Inf    == [kind |-> "inf", v |-> 0]

\* tensor(x) / n for a float scalar x >= 0 and a Python int n >= 0:
\* IEEE division, no exception (0/0 = nan, x/0 = inf)
FloatDiv(x, n) ==
    IF n # 0 THEN Fin(Quot(x, n))
    ELSE IF x = 0 THEN NaN ELSE Inf

\* e^(-k) in thousandths for an integer k >= 0
ExpNegTab == <<1000, 368, 135, 50, 18, 7, 2, 1>>
ExpNeg(k) == IF k + 1 <= Len(ExpNegTab) THEN ExpNegTab[k + 1] ELSE 0

\* ln(s / 1000) in thousandths for s >= 1000: 2 * atanh((s-1)/(s+1))
LnMilli(s) ==
    LET z  == Quot((s - Milli) * Milli, s + Milli)
        z2 == Quot(z * z, Milli)
        z3 == Quot(z2 * z, Milli)
        z5 == Quot(z3 * z2, Milli)
        z7 == Quot(z5 * z2, Milli)
    IN  2 * (z + Quot(z3, 3) + Quot(z5, 5) + Quot(z7, 7))

\* sigmoid(x) in thousandths at an integer logit x, |x| <= 3
SigmoidTab == <<47, 119, 269, 500, 731, 881, 953>>
Sigmoid(x) == SigmoidTab[x + 4]

\* log(1 + e^x) in thousandths at an integer logit x, |x| <= 3
SoftplusTab == <<49, 127, 313, 693, 1313, 2127, 3049>>
Softplus(x) == SoftplusTab[x + 4]


RECURSIVE PowMilli(_, _)
PowMilli(x, g) == IF g = 0 THEN Milli ELSE Quot(x * PowMilli(x, g - 1), Milli)

\* the set of sequences s with s[k] \in sets[k]
RECURSIVE Product(_)
Product(sets) ==
    IF sets = <<>> THEN {<<>>}
    ELSE {<<h>> \o t : h \in Head(sets), t \in Product(Tail(sets))}

-----------------------------------------------------------------------------
(* Index sets of a loss call *)

Batch     == 1..BatchSize
AnchorIdx == 1..NumAnchors
Slots     == Batch \X AnchorIdx
Classes   == 0..(NumClasses - 1)
Logits    == 0..MaxLogit

\* a [N, #anchors] tensor from a function of the position
Tensor2(f(_, _)) == [i \in Batch |-> [a \in AnchorIdx |-> f(i, a)]]

\* number of TRUE entries of a boolean row / tensor (mask.sum())
RowCount(row) == Cardinality({a \in DOMAIN row : row[a]})
MaskCount(mask) == Cardinality({s \in Slots : mask[s[1]][s[2]]})

\* sum of the entries of t selected by mask (t[mask].sum())
RECURSIVE SumOver(_, _)
SumOver(f, S) ==
    IF S = {} THEN 0
    ELSE LET s == CHOOSE x \in S : TRUE IN f[s[1]][s[2]] + SumOver(f, S \ {s})

MaskedSum(t, mask) == SumOver(t, {s \in Slots : mask[s[1]][s[2]]})

-----------------------------------------------------------------------------
(* Per-anchor classification losses.  x is the logit vector of one anchor  *)
(* (x[c + 1] is the logit of class c), y its class target.                 *)

\* F.log_softmax(x, dim=1)[r, y], in thousandths (<= 0)
LogSoftmax(x, y) ==
    LET m == MaxSeq(x)
        S == SumSeq([c \in DOMAIN x |-> ExpNeg(m - x[c])])
    IN  (x[y + 1] - m) * Milli - LnMilli(S)

\* F.cross_entropy(..., reduction='none') of one row
CrossEntropy(x, y) == -LogSoftmax(x, y)

SSDGamma   == 2
SSDAlpha   == 250     \* alpha = 0.25 in thousandths
FocalGamma == 3
FocalAlpha == 250     \* alpha = 0.25 in thousandths

\* SSDLoss._softmax_focal_loss of one row
SoftmaxFocalLoss(x, y) ==
    LET ce      == LogSoftmax(x, y)
        m       == MaxSeq(x)
        S       == SumSeq([c \in DOMAIN x |-> ExpNeg(m - x[c])])
        pt      == Quot(ExpNeg(m - x[y + 1]) * Milli, S)      \* torch.exp(ce)
        weights == PowMilli(Milli - pt, SSDGamma)
    IN  -Quot(weights * ce, Milli)

\* F.binary_cross_entropy_with_logits of one element, t in {0, 1}
BCEWithLogits(xc, t) == IF t = 1 THEN Softplus(-xc) ELSE Softplus(xc)

\* SSDLoss._sigmoid_focal_loss of one row (loss.sum(dim=-1))
SigmoidFocalLoss(x, y) ==
    LET t(c)   == IF c = y + 1 THEN 1 ELSE 0                  \* torch.eye(..)[target]
        p(c)   == Sigmoid(x[c])
        pt(c)  == (Milli - p(c)) * t(c) + p(c) * (1 - t(c))
        fw(c)  == Quot((SSDAlpha * t(c) + (Milli - SSDAlpha) * (1 - t(c)))
                       * PowMilli(pt(c), SSDGamma), Milli)
    IN  SumSeq([c \in DOMAIN x |-> Quot(BCEWithLogits(x[c], t(c)) * fw(c), Milli)])

\* FocalLoss.sigmoid_focal_loss, the contribution of one row to the sum
FocalSigmoidRow(x, y) ==
    LET t(c)   == IF c = y + 1 THEN 1 ELSE 0                  \* one_hot_embedding
        p(c)   == Sigmoid(x[c])
        pt(c)  == IF t(c) > 0 THEN p(c) ELSE Milli - p(c)
        w0(c)  == PowMilli(Milli - pt(c), FocalGamma)
        w(c)   == IF t(c) > 0 THEN Quot(FocalAlpha * w0(c), Milli)
                  ELSE Quot((Milli - FocalAlpha) * w0(c), Milli)
    IN  SumSeq([c \in DOMAIN x |-> Quot(BCEWithLogits(x[c], t(c)) * w(c), Milli)])

\* F.smooth_l1_loss of one element (beta = 1), values in thousandths
SmoothL1(p, t) ==
    LET d == Abs(p - t)
    IN  IF d < Milli THEN Quot(d * d, 2 * Milli) ELSE d - Quot(Milli, 2)

\* smooth L1 summed over the LocDim coordinates of one anchor
SmoothL1Row(p, t) == SumSeq([k \in 1..LocDim |-> SmoothL1(p[k], t[k])])

-----------------------------------------------------------------------------
(* SSDLoss *)

AllMask  == Tensor2(LAMBDA i, a : TRUE)
NoneMask == Tensor2(LAMBDA i, a : FALSE)

MaskOr(m1, m2) == Tensor2(LAMBDA i, a : m1[i][a] \/ m2[i][a])

\* (mutant of SortPerms) the row is ranked in descending order
SortPermsDescending(v) ==
    {idx \in Permutations(DOMAIN v) :
        \A k \in DOMAIN v : k + 1 \in DOMAIN v => v[idx[k]] >= v[idx[k + 1]]}

\* torch.sort of one row, ascending and not stable: every index order idx
\* with v[idx[1]] <= v[idx[2]] <= ... is a possible result
SortPerms(v) ==
    {idx \in Permutations(DOMAIN v) :
        \A k \in DOMAIN v : k + 1 \in DOMAIN v => v[idx[k]] <= v[idx[k + 1]]}

\* idx.sort(1) of an index order: rank[a] is the (0-based) place of a in idx
RankOf(idx) == [a \in DOMAIN idx |-> (CHOOSE k \in DOMAIN idx : idx[k] = a) - 1]

\* (mutant of NumNeg) the limit taken from the batch-wide positive count
NumNegBatchWide(pos, i) == NegPosRatio * MaskCount(pos)

\* num_neg = 3*pos.sum(1), the entry of batch element i
NumNeg(pos, i) == NegPosRatio * RowCount(pos[i])

\* one row of _hard_negative_mining: v is the row of cls_loss * (pos - 1),
\* num_neg its limit; neg = rank < num_neg for every order the sort can give
HardNegativeRow(v, num_neg) ==
    {[a \in DOMAIN v |-> RankOf(idx)[a] < num_neg] : idx \in SortPerms(v)}

\* SSDLoss._hard_negative_mining: the negative masks it can return
HardNegativeMining(cls_loss, pos) ==
    Product([i \in Batch |->
        HardNegativeRow([a \in AnchorIdx |->
                            cls_loss[i][a] * ((IF pos[i][a] THEN 1 ELSE 0) - 1)],
                        NumNeg(pos, i))])

\* cls_targets[mask_ign] = 0, the tensor after the assignment
ClearIgnoredTargets(tgt, mask_ign) ==
    Tensor2(LAMBDA i, a : IF mask_ign[i][a] THEN 0 ELSE tgt[i][a])

\* (mutant of ZeroIgnored) the ignored entries are left as computed
KeepIgnored(cls_loss, mask_ign) == cls_loss

\* cls_loss[mask_ign] = 0
ZeroIgnored(cls_loss, mask_ign) ==
    Tensor2(LAMBDA i, a : IF mask_ign[i][a] THEN 0 ELSE cls_loss[i][a])

\* the per-anchor classification loss of the configured mode, before masking
PerAnchorLoss(m, sig, x, y) ==
    IF m # "focal" THEN CrossEntropy(x, y)
    ELSE IF sig THEN SigmoidFocalLoss(x, y)
    ELSE SoftmaxFocalLoss(x, y)

\* num_pos = pos.sum().item()
NumPos(pos) == MaskCount(pos)

\* Non-finite tensor entries.  A tensor entry is a number of thousandths of
\* magnitude <= MaxFinite, or one of the two values above it
MaxFinite == Milli * Milli
LocNaN    == MaxFinite + 1
LocInf    == MaxFinite + 2

IsFinite(v) == Abs(v) <= MaxFinite

\* a + b of two float values
FloatAdd(a, b) ==
    IF a = LocNaN \/ b = LocNaN THEN LocNaN
    ELSE IF a = LocInf \/ b = LocInf THEN LocInf
    ELSE a + b

\* the float sum of the entries of t at the slots S
RECURSIVE FloatSumOver(_, _)
FloatSumOver(t, S) ==
    IF S = {} THEN 0
    ELSE LET s == CHOOSE x \in S : TRUE
         IN  FloatAdd(t[s[1]][s[2]], FloatSumOver(t, S \ {s}))

\* loc_loss /= num_pos, cls_loss /= num_pos
Normalize(total, num_pos) ==
    IF total = LocNaN THEN NaN
    ELSE IF total = LocInf THEN Inf
    ELSE FloatDiv(total, num_pos)

\* smooth L1 summed over the coordinates of one anchor: p - t is nan when
\* one of them is nan or both are infinite, infinite when one is infinite
SmoothL1RowFloat(p, t) ==
    IF \E k \in 1..LocDim : p[k] = LocNaN \/ t[k] = LocNaN \/ (p[k] = LocInf /\ t[k] = LocInf)
    THEN LocNaN
    ELSE IF \E k \in 1..LocDim : p[k] = LocInf \/ t[k] = LocInf THEN LocInf
    ELSE SmoothL1Row(p, t)

\* (mutant of LocLossSum) the mask is applied by multiplication after the
\* loss of every anchor is computed: nan * 0 and inf * 0 are nan
LocLossSumTimesMask(lp, lt, pos) ==
    FloatSumOver(Tensor2(LAMBDA i, a :
                    IF pos[i][a] THEN SmoothL1RowFloat(lp[i][a], lt[i][a])
                    ELSE IF IsFinite(SmoothL1RowFloat(lp[i][a], lt[i][a])) THEN 0
                    ELSE LocNaN),
                 Slots)

\* F.smooth_l1_loss(loc_preds[mask], loc_targets[mask], reduction='sum')
LocLossSum(lp, lt, pos) ==
    FloatSumOver(Tensor2(LAMBDA i, a : SmoothL1RowFloat(lp[i][a], lt[i][a])),
                 {s \in Slots : pos[s[1]][s[2]]})

\* _bounded_iou_loss: beta = 0.2 and eps = 1e-3, in thousandths
IoUBeta == 200
IoUEps  == 1

\* loss_dx / loss_dy for a target size tw and a center offset d
IoUCenterLoss(tw, d) ==
    Milli - Max2(Quot((tw - 2 * Abs(d)) * Milli, tw + 2 * Abs(d) + IoUEps), 0)

\* loss_dw / loss_dh for a target size tw and a predicted size pw
IoUSizeLoss(tw, pw) ==
    IF Quot(tw * Milli, pw + IoUEps) <= Quot(pw * Milli, tw + IoUEps)
    THEN Milli - Quot(tw * Milli, pw + IoUEps)
    ELSE Milli - Quot(pw * Milli, tw + IoUEps)

\* torch.where(loss_comb < beta, 0.5 * loss_comb^2 / beta, loss_comb - 0.5 * beta)
IoUSmooth(c) == IF c < IoUBeta THEN Quot(c * c, 2 * IoUBeta) ELSE c - Quot(IoUBeta, 2)

\* _bounded_iou_loss of one row of boxes (x1, y1, x2, y2) with x2 >= x1 and
\* y2 >= y1, summed over its four terms; a non-finite corner makes the
\* center offset or the size nan
BoundedIoURow(p, t) ==
    IF \E k \in 1..LocDim : ~IsFinite(p[k]) \/ ~IsFinite(t[k]) THEN LocNaN
    ELSE IoUSmooth(IoUCenterLoss(t[3] - t[1] + Milli, Quot(t[1] + t[3], 2) - Quot(p[1] + p[3], 2)))
       + IoUSmooth(IoUCenterLoss(t[4] - t[2] + Milli, Quot(t[2] + t[4], 2) - Quot(p[2] + p[4], 2)))
       + IoUSmooth(IoUSizeLoss(t[3] - t[1] + Milli, p[3] - p[1] + Milli))
       + IoUSmooth(IoUSizeLoss(t[4] - t[2] + Milli, p[4] - p[2] + Milli))

\* reduce(self._bounded_iou_loss(loc_preds[pos], loc_targets[pos]), mode='sum')
BoundedIoULossSum(lp, lt, pos) ==
    FloatSumOver(Tensor2(LAMBDA i, a : BoundedIoURow(lp[i][a], lt[i][a])),
                 {s \in Slots : pos[s[1]][s[2]]})

\* the loc_loss branch of SSDLoss.forward
LocLoss(iou, lp, lt, pos) ==
    IF iou THEN BoundedIoULossSum(lp, lt, pos) ELSE LocLossSum(lp, lt, pos)

\* SSDLoss.forward on the given tensors: every outcome the call can have
\* (the tensor cls_targets after it, the masks it used, what it returns)
SSDLossForward(m, sig, iou, lp, lt, cp, ct) ==
    LET mask_ign == Tensor2(LAMBDA i, a : ct[i][a] < 0)
        ct1      == ClearIgnoredTargets(ct, mask_ign)
        pos      == Tensor2(LAMBDA i, a : ct1[i][a] > 0)
        num_pos  == NumPos(pos)
        loc_sum  == LocLoss(iou, lp, lt, pos)
        raw      == Tensor2(LAMBDA i, a : PerAnchorLoss(m, sig, cp[i][a], ct1[i][a]))
        per      == ZeroIgnored(raw, mask_ign)
        negs     == IF m = "ohem" THEN HardNegativeMining(per, pos) ELSE {NoneMask}
    IN  {[cls_targets |-> ct1,
          mask_ign    |-> mask_ign,
          pos         |-> pos,
          neg         |-> neg,
          per         |-> per,
          included    |-> IF m = "ohem" THEN MaskOr(pos, neg) ELSE AllMask,
          loc_loss    |-> Normalize(loc_sum, num_pos),
          cls_loss    |-> Normalize(MaskedSum(per,
                              IF m = "ohem" THEN MaskOr(pos, neg) ELSE AllMask), num_pos)]
         : neg \in negs}

\* FocalLoss.forward (self.softmax is False): it returns one pair
FocalLossForward(lp, lt, cp, ct) ==
    LET pos      == Tensor2(LAMBDA i, a : ct[i][a] > 0)
        num_pos  == NumPos(pos)
        loc_sum  == LocLossSum(lp, lt, pos)
        pos_neg  == Tensor2(LAMBDA i, a : ct[i][a] > -1)
        per      == Tensor2(LAMBDA i, a :
                        IF pos_neg[i][a] THEN FocalSigmoidRow(cp[i][a], ct[i][a]) ELSE 0)
    IN  [cls_targets |-> ct,
         mask_ign    |-> Tensor2(LAMBDA i, a : ~pos_neg[i][a]),
         pos         |-> pos,
         neg         |-> NoneMask,
         per         |-> per,
         included    |-> pos_neg,
         loc_loss    |-> Normalize(loc_sum, num_pos),
         cls_loss    |-> Normalize(MaskedSum(per, pos_neg), num_pos)]

NoCall == [op |-> "none"]

\* a call of criterion(loc_preds, loc_targets, cls_preds, cls_targets) on an SSDLoss
SSDForward ==
    /\ \E r \in SSDLossForward(mode, use_sigmoid, use_iou, loc_preds, loc_targets,
                               cls_preds, cls_targets) :
        /\ cls_targets' = r.cls_targets
        /\ lossCall' = [op |-> "ssd", given |-> cls_targets, ret |-> r]
    /\ UNCHANGED <<mode, use_sigmoid, use_iou, loc_preds, loc_targets, cls_preds>>
    /\ UNCHANGED <<anchorVars, detVars, restVars, codecVars>>

\* a call of criterion(loc_preds, loc_targets, cls_preds, cls_targets) on a FocalLoss
FocalForward ==
    /\ LET r == FocalLossForward(loc_preds, loc_targets, cls_preds, cls_targets)
       IN  /\ cls_targets' = r.cls_targets
           /\ lossCall' = [op |-> "focal", given |-> cls_targets, ret |-> r]
    /\ UNCHANGED <<mode, use_sigmoid, use_iou, loc_preds, loc_targets, cls_preds>>
    /\ UNCHANGED <<anchorVars, detVars, restVars, codecVars>>

(* The tensors of a training step *)

FgLabels == 1..(NumClasses - 1)
PredVecs == [1..NumClasses -> Logits]
DefaultPred == [c \in 1..NumClasses |-> 0]
SlotOrNone == Slots \cup {<<0, 0>>}

\* class targets with the anchors P positive (labels lab) and G ignored
TargetsOf(P, lab, G) ==
    Tensor2(LAMBDA i, a :
        IF \E k \in DOMAIN P : P[k] = <<i, a>>
            THEN lab[CHOOSE k \in DOMAIN P : P[k] = <<i, a>>]
        ELSE IF \E k \in DOMAIN G : G[k] = <<i, a>> THEN -1
        ELSE 0)

\* class predictions with the anchors H predicted as vec, the rest default
PredsOf(H, vec) ==
    Tensor2(LAMBDA i, a :
        IF \E k \in DOMAIN H : H[k] = <<i, a>>
            THEN vec[CHOOSE k \in DOMAIN H : H[k] = <<i, a>>]
        ELSE DefaultPred)

UniformLoc(x) == Tensor2(LAMBDA i, a : [k \in 1..LocDim |-> x])

LossModes == {<<"focal", FALSE>>, <<"focal", TRUE>>, <<"ohem", FALSE>>, <<"ce", FALSE>>}

LossInit ==
    /\ \E mc \in LossModes : mode = mc[1] /\ use_sigmoid = mc[2]
    /\ use_iou = FALSE
    /\ \E P \in [1..MaxPos -> SlotOrNone], lab \in [1..MaxPos -> FgLabels],
          G \in [1..MaxIgn -> SlotOrNone] :
          cls_targets = TargetsOf(P, lab, G)
    /\ \E H \in [1..MaxHot -> SlotOrNone], vec \in [1..MaxHot -> PredVecs] :
          cls_preds = PredsOf(H, vec)
    /\ loc_targets = UniformLoc(0)
    /\ loc_preds = UniformLoc(Quot(Milli, 2))
    /\ lossCall = NoCall

LossIdle ==
    /\ mode = "ce" /\ use_sigmoid = FALSE /\ use_iou = FALSE
    /\ cls_targets = Tensor2(LAMBDA i, a : 0)
    /\ cls_preds = Tensor2(LAMBDA i, a : DefaultPred)
    /\ loc_targets = UniformLoc(0)
    /\ loc_preds = UniformLoc(0)
    /\ lossCall = NoCall

AnchorIdle == coder = "none" /\ anchorCall = "none"
NoDetector == [constructed |-> FALSE]
NoEncoding == [op |-> "none"]
DetIdle    == detector = NoDetector /\ encoded = NoEncoding
NoTargets  == <<>>
NoCodecCall == [op |-> "none"]
NoPreds    == [op |-> "none"]
CodecIdle  == targets = NoTargets /\ codecCall = NoCodecCall /\ preds = NoPreds
NoCell     == [op |-> "none"]
NoRnn      == [op |-> "none"]
CellIdle   == cell = NoCell /\ cellCall = <<>>
RnnIdle    == CellIdle /\ rnn = NoRnn /\ rnnCall = NoRnn
NoEnv      == [op |-> "none"]
DataIdle   == env = NoEnv /\ envCall = NoEnv /\ batch = <<>> /\ collated = NoEnv
RestIdle   == RnnIdle /\ DataIdle

LossNext == SSDForward \/ FocalForward

InitLoss == LossInit /\ AnchorIdle /\ DetIdle /\ RestIdle /\ CodecIdle

SpecLoss == InitLoss /\ [][LossNext]_vars

-----------------------------------------------------------------------------
(* Properties of the loss functions *)

Called(op)  == lossCall.op = op
Given(s)    == lossCall.given[s[1]][s[2]]
At(t, s)    == t[s[1]][s[2]]

\* C1: when no anchor of the batch is positive (every class target <= 0)
\* the loss returns loc_loss = 0 and cls_loss = 0 exactly (never NaN or Inf),
\* for SSDLoss.forward in every mode and for FocalLoss.forward.
C1_ZeroPositivesGiveZeroLoss ==
    (~Called("none") /\ \A s \in Slots : Given(s) <= 0)
        => /\ lossCall.ret.loc_loss = Fin(0)
           /\ lossCall.ret.cls_loss = Fin(0)

\* C2: SSDLoss.forward leaves its four argument tensors unchanged (a class
\* target of -1 is still -1 after the call) and a second call on the same
\* tensors returns the same (loc_loss, cls_loss) as the first.
C2_ForwardIsPure ==
    [][SSDForward =>
        /\ <<loc_preds, loc_targets, cls_preds, cls_targets>>'
             = <<loc_preds, loc_targets, cls_preds, cls_targets>>
        /\ Called("ssd") =>
             /\ lossCall'.ret.loc_loss = lossCall.ret.loc_loss
             /\ lossCall'.ret.cls_loss = lossCall.ret.cls_loss]_vars

\* the cls_loss values SSDLoss.forward can return for class predictions cp
\* and the class targets of the last call
ClsLossFor(cp) ==
    {r.cls_loss : r \in SSDLossForward(mode, use_sigmoid, use_iou, loc_preds, loc_targets,
                                       cp, lossCall.given)}

\* C3: in every SSDLoss mode an anchor whose class target is -1 contributes
\* exactly 0 to the classification sum, is not counted as positive, and
\* changing its class prediction never changes cls_loss.
C3_IgnoredContributeNothing ==
    Called("ssd") =>
        \A s \in Slots : Given(s) = -1 =>
            /\ At(lossCall.ret.per, s) = 0
            /\ ~At(lossCall.ret.pos, s)
            /\ \A x \in PredVecs :
                 ClsLossFor([cls_preds EXCEPT ![s[1]][s[2]] = x]) = {lossCall.ret.cls_loss}

\* C3 witness: a call with an ignored anchor whose unmasked loss is not 0,
\* in a batch with a positive anchor (so cls_loss is a finite number)
C3_Witness ==
    /\ Called("ssd")
    /\ lossCall.ret.cls_loss.kind = "fin"
    /\ lossCall.ret.cls_loss.v > 0
    /\ \E s \in Slots :
         /\ Given(s) = -1
         /\ PerAnchorLoss(mode, use_sigmoid, At(cls_preds, s), 0) > 0

\* the non-positive anchors of batch element i that enter the sum
NegativesInSum(i) ==
    {a \in AnchorIdx : lossCall.ret.included[i][a] /\ ~lossCall.ret.pos[i][a]}

\* C4: in 'ohem' mode, for every batch element i, at most 3 x (positives of
\* element i) non-positive anchors of element i enter the classification
\* sum, and every positive anchor of element i enters it.
C4_OhemLimitPerElement ==
    (Called("ssd") /\ mode = "ohem") =>
        \A i \in Batch :
            /\ Cardinality(NegativesInSum(i)) <= NegPosRatio * RowCount(lossCall.ret.pos[i])
            /\ \A a \in AnchorIdx : lossCall.ret.pos[i][a] => lossCall.ret.included[i][a]

\* C4 witness: an element with a positive anchor where the limit leaves a
\* non-positive anchor out, next to an element without positives
C4_Witness ==
    /\ Called("ssd") /\ mode = "ohem"
    /\ \E i, j \in Batch :
         /\ RowCount(lossCall.ret.pos[i]) >= 1
         /\ Cardinality(NegativesInSum(i)) = NegPosRatio * RowCount(lossCall.ret.pos[i])
         /\ \E a \in AnchorIdx : ~lossCall.ret.included[i][a]
         /\ RowCount(lossCall.ret.pos[j]) = 0
         /\ NegativesInSum(j) = {}

-----------------------------------------------------------------------------
(* AnchorLayer and Anchors.  Lengths are in quarters of a pixel: a ratio   *)
(* is a fraction [num, den], a scale list carries the numpy dtype that     *)
(* np.tile(scales, ...) gets (int64 for a list of Python ints).            *)

MaxH       == 2    \* feature-map heights of the first level range over 1..MaxH
MaxW       == 4    \* feature-map widths of the first level range over 1..MaxW
MaxLevels  == 2    \* at most this many pyramid levels
MaxBase    == 3    \* base_size ranges over 2..MaxBase

Devices == {"cpu", "cuda"}
DTypes  == {"float32", "float64"}

Ratio(n, d) == [num |-> n, den |-> d]
RatioLists  == {<<Ratio(1, 1)>>, <<Ratio(1, 4), Ratio(4, 1)>>}
ScaleLists  == {[dtype |-> "int",   vals |-> <<Quarter>>],
                [dtype |-> "int",   vals |-> <<Quarter, 2 * Quarter>>],
                [dtype |-> "float", vals |-> <<Quarter, Quarter + 2>>]}

\* np.sqrt of a perfect square (in sixteenths, giving quarters)
Sqrt(n) == CHOOSE r \in 0..n : r * r <= n /\ n < (r + 1) * (r + 1)

\* storing a float into an array of the given dtype (anchors[:, k] = ...)
Cast(dtype, q) == IF dtype = "int" THEN Quot(q, Quarter) * Quarter ELSE q

\* AnchorLayer.generate_anchors: row k (0-based) of the (R*S, 2) array
GenerateAnchors(box_size, ratios, scales) ==
    LET S       == Len(scales.vals)
        R       == Len(ratios)
        side(k) == box_size * scales.vals[(k % S) + 1]      \* box_size * np.tile(..).T
        area(k) == side(k) * side(k)
        rep(k)  == ratios[(k \div S) + 1]                   \* np.repeat(ratios, len(scales))
        w(k)    == Cast(scales.dtype, Sqrt(Quot(area(k) * rep(k).den, rep(k).num)))
        h(k)    == Cast(scales.dtype, Quot(w(k) * rep(k).num, rep(k).den))
    IN  [k1 \in 1..(R * S) |-> <<w(k1 - 1), h(k1 - 1)>>]

\* box_sizes.view(-1)
FlattenPairs(t) == [n \in 1..(2 * Len(t)) |-> t[(n + 1) \div 2][((n + 1) % 2) + 1]]

NoTensor == [shape |-> <<>>, device |-> "", dtype |-> "", data |-> <<>>]

\* AnchorLayer.__init__
AnchorLayerInit(box_size, stride, ratios, scales) ==
    [num_anchors |-> Len(scales.vals) * Len(ratios),
     box_sizes   |-> FlattenPairs(GenerateAnchors(box_size, ratios, scales)),
     anchors     |-> NoTensor,
     stride      |-> stride]

\* torch.linspace(start, end, steps)
Linspace(start, end, steps) ==
    [i \in 1..steps |->
        IF steps = 1 THEN start ELSE start + Quot((i - 1) * (end - start), steps - 1)]

\* AnchorLayer.make_grid: grid[i][j][a] = (x, y) of cell (row i, column j)
MakeGrid(layer, height, width) ==
    LET half   == Quot(layer.stride * Quarter, 2)                  \* 0.5 * stride
        lin_h  == Linspace(half, (height - 1) * layer.stride * Quarter + half, height)
        lin_w  == Linspace(half, (width - 1) * layer.stride * Quarter + half, width)
        grid_h == [i \in 1..height |-> [j \in 1..width |-> lin_h[i]]]   \* meshgrid, 'ij'
        grid_w == [i \in 1..height |-> [j \in 1..width |-> lin_w[j]]]
    IN  [i \in 1..height |-> [j \in 1..width |-> [a \in 1..layer.num_anchors |->
            <<grid_w[i][j], grid_h[i][j]>>]]]

\* the wh tensor of AnchorLayer.forward: zeros + box_sizes.view(2A, 1, 1),
\* permute([1, 2, 0]), view(height, width, A, 2)
MakeWH(layer, height, width) ==
    LET wh0 == [k \in 1..(2 * layer.num_anchors) |->
                   [i \in 1..height |-> [j \in 1..width |-> 0 + layer.box_sizes[k]]]]
        wh1 == [i \in 1..height |-> [j \in 1..width |->
                   [k \in 1..(2 * layer.num_anchors) |-> wh0[k][i][j]]]]
    IN  [i \in 1..height |-> [j \in 1..width |-> [a \in 1..layer.num_anchors |->
            <<wh1[i][j][2 * (a - 1) + 1], wh1[i][j][2 * (a - 1) + 2]>>]]]

\* the condition of the if in AnchorLayer.forward
MustRegenerate(layer, x) ==
    \/ layer.anchors = NoTensor
    \/ SubSeq(layer.anchors.shape, Len(layer.anchors.shape) - 1, Len(layer.anchors.shape))
         # <<x.height, x.width>>
    \/ layer.anchors.device # x.device

\* torch.cat([grid, wh], dim=-1) as assigned to self.anchors
NewAnchors(layer, x) ==
    LET grid == MakeGrid(layer, x.height, x.width)
        wh   == MakeWH(layer, x.height, x.width)
    IN  [shape  |-> <<x.height, x.width, layer.num_anchors, 4>>,
         device |-> x.device,
         dtype  |-> x.dtype,
         data   |-> [i \in 1..x.height |-> [j \in 1..x.width |->
                        [a \in 1..layer.num_anchors |-> grid[i][j][a] \o wh[i][j][a]]]]]

\* tensor.view(-1, 4) of a contiguous [H, W, A, 4] tensor
ViewRows(t) ==
    LET H == t.shape[1]
        W == t.shape[2]
        A == t.shape[3]
    IN  [n \in 1..(H * W * A) |->
            t.data[((n - 1) \div (W * A)) + 1][(((n - 1) \div A) % W) + 1][((n - 1) % A) + 1]]

\* AnchorLayer.forward: the layer after the call and what it returns
AnchorLayerForward(layer, x) ==
    LET regen == MustRegenerate(layer, x)
        cache == IF regen THEN NewAnchors(layer, x) ELSE layer.anchors
    IN  [layer       |-> [layer EXCEPT !.anchors = cache],
         ret         |-> ViewRows(cache),
         regenerated |-> regen]

\* kwargs.get(key, default)
KwGet(kwargs, key, default) == IF key \in DOMAIN kwargs THEN kwargs[key] ELSE default

RECURSIVE Pow2(_)
Pow2(n) == IF n = 0 THEN 1 ELSE 2 * Pow2(n - 1)

\* Anchors.__init__ up to the choice of the nms function: the configuration
AnchorsConfig(kwargs) ==
    LET pyramid_levels == KwGet(kwargs, "pyramid_levels", <<3, 4, 5, 6>>)
        base_size      == KwGet(kwargs, "base_size", 32)
        ratios         == KwGet(kwargs, "ratios",
                                <<Ratio(1, 2), Ratio(1, 1), Ratio(2, 1)>>)
        scales         == KwGet(kwargs, "scales",
                                [dtype |-> "float", vals |-> <<Quarter, 5, 6>>])
    IN  [pyramid_levels |-> pyramid_levels,
         strides        |-> KwGet(kwargs, "strides",
                                [k \in DOMAIN pyramid_levels |-> Pow2(pyramid_levels[k])]),
         base_size      |-> base_size,
         sizes          |-> KwGet(kwargs, "sizes",
                                [k \in DOMAIN pyramid_levels |-> base_size * Pow2(k - 1)]),
         ratios         |-> ratios,
         scales         |-> scales,
         fg_iou_threshold |-> KwGet(kwargs, "fg_iou_threshold", Quot(Milli, 2)),
         bg_iou_threshold |-> KwGet(kwargs, "bg_iou_threshold", Quot(2 * Milli, 5)),
         num_anchors    |-> Len(scales.vals) * Len(ratios),
         label_offset   |-> KwGet(kwargs, "label_offset", 0),
         nms_type       |-> KwGet(kwargs, "nms_type", "soft_nms"),
         nms            |-> IF KwGet(kwargs, "nms_type", "soft_nms") = "soft_nms"
                            THEN "box_soft_nms" ELSE "box_nms"]

Min2(a, b) == IF a <= b THEN a ELSE b

\* Anchors.__init__, the loop that fills anchor_generators
AnchorGenerators(cfg) ==
    [k \in 1..Min2(Len(cfg.sizes), Len(cfg.strides)) |->
        AnchorLayerInit(cfg.sizes[k], cfg.strides[k], cfg.ratios, cfg.scales)]

\* a constructed Anchors module; its buffers are on the module's device
AnchorsNew(kwargs) ==
    [cfg               |-> AnchorsConfig(kwargs),
     anchor_generators |-> AnchorGenerators(AnchorsConfig(kwargs)),
     device            |-> "cpu"]

RECURSIVE Concat(_)
Concat(seqs) == IF seqs = <<>> THEN <<>> ELSE Head(seqs) \o Concat(Tail(seqs))

\* Anchors.forward: the layers after the call, the per-level results and
\* the returned torch.cat(default_boxes, dim=0)
AnchorsForwardOn(c, features) ==
    LET n     == Min2(Len(features), Len(c.anchor_generators))     \* zip
        calls == [k \in 1..n |-> AnchorLayerForward(c.anchor_generators[k], features[k])]
    IN  [coder  |-> [c EXCEPT !.anchor_generators =
                        [k \in DOMAIN c.anchor_generators |->
                            IF k <= n THEN calls[k].layer ELSE c.anchor_generators[k]]],
         levels |-> calls,
         ret    |-> Concat([k \in 1..n |-> calls[k].ret])]

\* the size of the next (coarser) feature map of a backbone
Halve(n) == (n + 1) \div 2

RECURSIVE HalveTimes(_, _)
HalveTimes(n, k) == IF k = 0 THEN n ELSE HalveTimes(Halve(n), k - 1)

\* the feature maps a backbone hands over: n levels, each half the previous
FeaturePyramid(n, height, width, device, dtype) ==
    [k \in 1..n |-> [height |-> HalveTimes(height, k - 1),
                     width  |-> HalveTimes(width, k - 1),
                     device |-> device,
                     dtype  |-> dtype]]

NoAnchorCall == [op |-> "none"]

\* a call box_coder(features) with one feature map per level, on the
\* module's device.  first / repeated record the history of the call:
\* whether it is the first forward, and whether level k got the same
\* (height, width, device, dtype) as in the previous forward
AnchorsForward ==
    /\ \E height \in 1..MaxH, width \in 1..MaxW, dtype \in DTypes :
         LET features == FeaturePyramid(Len(coder.anchor_generators), height, width,
                                        coder.device, dtype)
             r        == AnchorsForwardOn(coder, features)
         IN  /\ coder' = r.coder
             /\ anchorCall' = [op       |-> "forward",
                               features |-> features,
                               levels   |-> r.levels,
                               ret      |-> r.ret,
                               first    |-> anchorCall.op = "none",
                               repeated |-> [k \in DOMAIN features |->
                                               /\ anchorCall.op = "forward"
                                               /\ anchorCall.features[k] = features[k]]]
    /\ UNCHANGED <<lossVars, detVars, restVars, codecVars>>

\* module.to(device): the registered buffers (box_sizes) move, the plain
\* attribute self.anchors of each layer does not
AnchorsTo ==
    /\ \E d \in Devices : d # coder.device /\ coder' = [coder EXCEPT !.device = d]
    /\ UNCHANGED anchorCall
    /\ UNCHANGED <<lossVars, detVars, restVars, codecVars>>

AnchorKwargs ==
    {[pyramid_levels |-> [k \in 1..n |-> k], base_size |-> b, ratios |-> r, scales |-> sc] :
        n \in 1..MaxLevels, b \in 2..MaxBase, r \in RatioLists, sc \in ScaleLists}

AnchorInit ==
    /\ \E kwargs \in AnchorKwargs : coder = AnchorsNew(kwargs)
    /\ anchorCall = NoAnchorCall

AnchorNext == AnchorsForward \/ AnchorsTo

InitAnchors == LossIdle /\ AnchorInit /\ DetIdle /\ RestIdle /\ CodecIdle

SpecAnchors == InitAnchors /\ [][AnchorNext]_vars

-----------------------------------------------------------------------------
(* SingleStageDetector *)

MaxDetLevels  == 3   \* feature_extractor.levels ranges over 1..MaxDetLevels
MaxDetClasses == 3   \* num_classes ranges over 1..MaxDetClasses
MaxCin        == 2   \* cin ranges over 1..MaxCin

Acts == {"sigmoid", "softmax"}

\* the keyword arguments SingleStageDetector.__init__ gives to Anchors
\* (scales [1.0, 2**1./3, 2**2./3] = [1, 2/3, 4/3] to the nearest quarter,
\* thresholds in thousandths)
DetectorAnchorKwargs(levels) ==
    [pyramid_levels   |-> [k \in 1..levels |-> 3 + (k - 1)],
     scales           |-> [dtype |-> "float", vals |-> <<Quarter, 3, 5>>],
     ratios           |-> <<Ratio(1, 2), Ratio(1, 1), Ratio(2, 1)>>,
     fg_iou_threshold |-> Quot(Milli, 2),
     bg_iou_threshold |-> Quot(2 * Milli, 5)]

\* rpn(cout, num_anchors, num_classes + label_offset, act): the head
BoxHeadNew(num_anchors, num_classes, act) ==
    [num_anchors |-> num_anchors, num_classes |-> num_classes, act |-> act]

\* SingleStageDetector.__init__ (levels = feature_extractor(cin).levels)
DetectorNew(levels, num_classes, cin, act) ==
    LET label_offset == IF act = "softmax" THEN 1 ELSE 0
        box_coder    == AnchorsConfig(DetectorAnchorKwargs(levels))
    IN  [constructed  |-> TRUE,
         label_offset |-> label_offset,
         num_classes  |-> num_classes,
         cin          |-> cin,
         box_coder    |-> box_coder,
         num_anchors  |-> box_coder.num_anchors,
         act          |-> act,
         rpn          |-> BoxHeadNew(box_coder.num_anchors, num_classes + label_offset, act)]

\* Anchors.encode_boxes_from_anchors: the labels handed to assign_priors
OffsetLabel(cfg, label) == label + cfg.label_offset

\* SingleStageDetector(...)
DetectorConstruct ==
    /\ ~detector.constructed
    /\ \E levels \in 1..MaxDetLevels, num_classes \in 1..MaxDetClasses,
          cin \in 1..MaxCin, act \in Acts :
          detector' = DetectorNew(levels, num_classes, cin, act)
    /\ UNCHANGED encoded
    /\ UNCHANGED <<lossVars, anchorVars, codecVars, restVars>>

\* the detector's box coder encodes a ground-truth box of class label
DetectorEncodeLabel ==
    /\ detector.constructed
    /\ \E label \in 0..(detector.num_classes - 1) :
          encoded' = [op     |-> "encode",
                      label  |-> label,
                      target |-> OffsetLabel(detector.box_coder, label)]
    /\ UNCHANGED detector
    /\ UNCHANGED <<lossVars, anchorVars, codecVars, restVars>>

DetInit == detector = NoDetector /\ encoded = NoEncoding

DetNext == DetectorConstruct \/ DetectorEncodeLabel

InitDetector == LossIdle /\ AnchorIdle /\ DetInit /\ CodecIdle /\ RestIdle

SpecDetector == InitDetector /\ [][DetNext]_vars

-----------------------------------------------------------------------------
(* Properties of the anchor generator *)

Forwarded == anchorCall.op = "forward"

\* the same Anchors module as constructed, before any forward
Fresh(c) == [c EXCEPT !.anchor_generators = AnchorGenerators(c.cfg)]

\* C5: every AnchorLayer.forward / Anchors.forward call returns exactly the
\* anchors a freshly constructed module with the same configuration returns
\* for that call's feature maps (the cached result equals a cold run).
C5_CachedEqualsColdRun ==
    Forwarded =>
        /\ anchorCall.ret = AnchorsForwardOn(Fresh(coder), anchorCall.features).ret
        /\ \A k \in DOMAIN anchorCall.levels :
             anchorCall.levels[k].ret
               = AnchorLayerForward(Fresh(coder).anchor_generators[k],
                                    anchorCall.features[k]).ret

\* C6: a layer regenerates its cached anchors exactly when the height,
\* width, device or dtype of the feature map differs from the previous call:
\* a call that repeats them reuses the cache, any other call recomputes.
C6_RegeneratedOnlyOnChange ==
    (Forwarded /\ ~anchorCall.first) =>
        \A k \in DOMAIN anchorCall.levels :
            anchorCall.levels[k].regenerated <=> ~anchorCall.repeated[k]

\* the number of anchors of a feature map with A anchors per cell
CellCount(x, A) == x.height * x.width * A

\* C7: AnchorLayer.forward returns exactly H x W x A anchors and
\* Anchors.forward the concatenation over the levels, of length
\* sum over levels of H_i x W_i x A.
C7_AnchorCount ==
    Forwarded =>
        /\ \A k \in DOMAIN anchorCall.levels :
             Len(anchorCall.levels[k].ret)
               = CellCount(anchorCall.features[k], coder.cfg.num_anchors)
        /\ anchorCall.ret = Concat([k \in DOMAIN anchorCall.levels |-> anchorCall.levels[k].ret])
        /\ Len(anchorCall.ret)
             = SumSeq([k \in DOMAIN anchorCall.levels |->
                          CellCount(anchorCall.features[k], coder.cfg.num_anchors)])

\* entry a (1-based) of the box-size table of a layer
BoxSize(layer, a) == <<layer.box_sizes[2 * a - 1], layer.box_sizes[2 * a]>>

\* C8: levels are concatenated in pyramid-level order and, inside a level,
\* the anchor at flat index (row x W + col) x A + a has center
\* ((0.5 + col) x stride, (0.5 + row) x stride) and the size of entry a of
\* the level's box-size table.
C8_AnchorOrder ==
    Forwarded =>
        /\ anchorCall.ret = Concat([k \in DOMAIN anchorCall.levels |-> anchorCall.levels[k].ret])
        /\ \A k \in DOMAIN anchorCall.levels :
             LET x     == anchorCall.features[k]
                 layer == coder.anchor_generators[k]
                 A     == layer.num_anchors
                 out   == anchorCall.levels[k].ret
             IN  \A row \in 0..(x.height - 1), col \in 0..(x.width - 1), a \in 0..(A - 1) :
                    LET n == (row * x.width + col) * A + a + 1
                    IN  /\ n \in DOMAIN out
                        /\ out[n] = << Quot((2 * col + 1) * layer.stride * Quarter, 2),
                                       Quot((2 * row + 1) * layer.stride * Quarter, 2) >>
                                    \o BoxSize(layer, a + 1)

\* C9: generate_anchors produces one (w, h) entry for every (ratio, scale)
\* pair, at index ratio_index x len(scales) + scale_index, with
\* w x h = (box_size x scale)^2 and h / w = ratio, and every generated
\* anchor's (w, h) is one of these table entries.
C9_BoxSizeTable ==
    \A k \in DOMAIN coder.anchor_generators :
        LET layer  == coder.anchor_generators[k]
            ratios == coder.cfg.ratios
            scales == coder.cfg.scales.vals
            S      == Len(scales)
            table  == {BoxSize(layer, a) : a \in 1..layer.num_anchors}
        IN  /\ Len(layer.box_sizes) = 2 * Len(ratios) * S
            /\ \A ri \in 0..(Len(ratios) - 1), si \in 0..(S - 1) :
                 LET wh   == BoxSize(layer, ri * S + si + 1)
                     side == coder.cfg.sizes[k] * scales[si + 1]
                 IN  /\ wh[1] * wh[2] = side * side
                     /\ wh[2] * ratios[ri + 1].den = wh[1] * ratios[ri + 1].num
            /\ Forwarded =>
                 \A n \in DOMAIN anchorCall.levels[k].ret :
                    <<anchorCall.levels[k].ret[n][3], anchorCall.levels[k].ret[n][4]>> \in table

-----------------------------------------------------------------------------
(* Properties of the detector *)

\* C10: in a constructed SingleStageDetector the offset its box coder adds
\* to ground-truth labels equals the label_offset that sizes the head's
\* class dimension (1 for softmax, 0 for sigmoid).
C10_SharedLabelOffset ==
    detector.constructed =>
        /\ detector.box_coder.label_offset = detector.label_offset
        /\ detector.rpn.num_classes = detector.num_classes + detector.box_coder.label_offset
        /\ detector.label_offset = (IF detector.act = "softmax" THEN 1 ELSE 0)
        /\ encoded.op = "encode" =>
             encoded.target = encoded.label + detector.label_offset

-----------------------------------------------------------------------------
(* Exact numbers of the box coder *)

RECURSIVE GCD(_, _)
GCD(a, b) == IF b = 0 THEN a ELSE GCD(b, a % b)

\* the rational n / d (d # 0) in lowest terms with a positive denominator
Frac(n, d) ==
    LET g == GCD(Abs(n), Abs(d))
        s == IF d < 0 THEN -1 ELSE 1
    IN  [n |-> (s * n) \div g, d |-> (s * d) \div g]

FInt(x)    == [n |-> x, d |-> 1]
FAdd(a, b) == Frac(a.n * b.d + b.n * a.d, a.d * b.d)
FSub(a, b) == Frac(a.n * b.d - b.n * a.d, a.d * b.d)
FMul(a, b) == Frac(a.n * b.n, a.d * b.d)
FDiv(a, b) == Frac(a.n * b.d, a.d * b.n)
FLt(a, b)  == a.n * b.d < b.n * a.d
FLe(a, b)  == a.n * b.d <= b.n * a.d
FMin(a, b) == IF FLe(a, b) THEN a ELSE b
FMax(a, b) == IF FLe(a, b) THEN b ELSE a
FHalf(a)   == Frac(a.n, 2 * a.d)

\* a value in thousandths as a rational
FMilli(x) == Frac(x, Milli)

\* a float of the coder: a rational, coef * ln(arg) with arg > 0, arg # 1,
\* base ^ exponent with exponent # 1, e ^ a with a # 0, -inf, or nan; the
\* values that are not rational stay symbolic
Num(a)        == [kind |-> "frac", a |-> a,       b |-> FInt(1)]
Ln(arg, coef) == [kind |-> "ln",   a |-> arg,     b |-> coef]
Pw(base, e)   == [kind |-> "pow",  a |-> base,    b |-> e]
NegInf        == [kind |-> "-inf", a |-> FInt(0), b |-> FInt(1)]
NotANumber    == [kind |-> "nan",  a |-> FInt(0), b |-> FInt(1)]

\* torch.log of a non-negative rational
TorchLog(x) ==
    IF x.n = 0 THEN NegInf
    ELSE IF x.n < 0 THEN NotANumber
    ELSE IF x = FInt(1) THEN Num(FInt(0))
    ELSE Ln(x, FInt(1))

\* v * c and v / c for a positive rational c
Scale(v, c) ==
    CASE v.kind = "frac" -> Num(FMul(v.a, c))
      [] v.kind = "ln"   -> Ln(v.a, FMul(v.b, c))
      [] OTHER           -> v

\* torch.exp
TorchExp(v) ==
    CASE v.kind = "frac" -> IF v.a.n = 0 THEN Num(FInt(1))
                            ELSE [kind |-> "exp", a |-> v.a, b |-> FInt(1)]
      [] v.kind = "ln"   -> IF v.b = FInt(1) THEN Num(v.a) ELSE Pw(v.a, v.b)
      [] v.kind = "-inf" -> Num(FInt(0))
      [] OTHER           -> NotANumber

-----------------------------------------------------------------------------
(* Box geometry (core/utils/box.py): boxes are 4-tuples of rationals *)

\* box.change_box_order(boxes, "xywh2xyxy") for one box
XYWH2XYXY(b) ==
    << FSub(b[1], FHalf(b[3])), FSub(b[2], FHalf(b[4])),
       FAdd(b[1], FHalf(b[3])), FAdd(b[2], FHalf(b[4])) >>

\* box.change_box_order(boxes, "xyxy2xywh") for one box
XYXY2XYWH(b) ==
    << FHalf(FAdd(b[1], b[3])), FHalf(FAdd(b[2], b[4])),
       FSub(b[3], b[1]), FSub(b[4], b[2]) >>

\* width x height of a corner-form box, 0 for a degenerate one
BoxArea(b) ==
    FMul(FMax(FInt(0), FSub(b[3], b[1])), FMax(FInt(0), FSub(b[4], b[2])))

\* box.box_iou for one pair: intersection over union, 0 when the union is 0
BoxIoU(a, b) ==
    LET iw    == FMax(FInt(0), FSub(FMin(a[3], b[3]), FMax(a[1], b[1])))
        ih    == FMax(FInt(0), FSub(FMin(a[4], b[4]), FMax(a[2], b[2])))
        inter == FMul(iw, ih)
        union == FSub(FAdd(BoxArea(a), BoxArea(b)), inter)
    IN  IF union.n = 0 THEN FInt(0) ELSE FDiv(inter, union)

\* a function over 1..n as a tuple of evaluated elements
Eager(f) == f \o <<>>

\* the first index of seq at which the rational is maximal (torch.max)
ArgMax(seq) ==
    CHOOSE k \in DOMAIN seq :
        /\ \A j \in DOMAIN seq : FLe(seq[j], seq[k])
        /\ \A j \in 1..(k - 1) : FLt(seq[j], seq[k])

\* step 1 of box.assign_priors: the IoU matrix [num_gt][num_anchors]
IoUMatrix(gt_boxes, anchors_xyxy) ==
    Eager([g \in DOMAIN gt_boxes |->
              Eager([a \in DOMAIN anchors_xyxy |-> BoxIoU(gt_boxes[g], anchors_xyxy[a])])])

\* step 2: the best anchor of every ground-truth box
BestAnchors(iou) == Eager([g \in DOMAIN iou |-> ArgMax(iou[g])])

\* the ground-truth box that keeps anchor a as its forced match (0: none);
\* of several boxes with the same best anchor the last one keeps it
ForcedBy(best, a) ==
    IF \E g \in DOMAIN best : best[g] = a
    THEN CHOOSE g \in DOMAIN best : best[g] = a /\ \A h \in DOMAIN best : best[h] = a => h <= g
    ELSE 0

\* step 3: the best ground-truth box of anchor a
BestBox(iou, a) == ArgMax(Eager([g \in DOMAIN iou |-> iou[g][a]]))

\* steps 4 and 5 for one anchor: forced is ForcedBy, match is BestBox and
\* m the IoU with it
AssignOne(forced, match, m, labels, fg_iou_threshold, bg_iou_threshold) ==
    IF forced # 0
    THEN [matched |-> forced, forced |-> TRUE, cls |-> labels[forced]]
    ELSE [matched |-> match, forced |-> FALSE,
          cls |-> IF FLe(FMilli(fg_iou_threshold), m) THEN labels[match]
                  ELSE IF FLt(m, FMilli(bg_iou_threshold)) THEN 0
                  ELSE -1]

\* steps 2 to 5 on the IoU matrix and the best anchors
AssignByIoU(iou, best, A, labels, fg_iou_threshold, bg_iou_threshold) ==
    Eager([a \in A |->
              AssignOne(ForcedBy(best, a), BestBox(iou, a), iou[BestBox(iou, a)][a],
                        labels, fg_iou_threshold, bg_iou_threshold)])

AssignOnMatrix(iou, A, labels, fg_iou_threshold, bg_iou_threshold) ==
    AssignByIoU(iou, BestAnchors(iou), A, labels, fg_iou_threshold, bg_iou_threshold)

\* box.assign_priors: for every anchor the matched ground-truth index
\* (0: none), whether the match was forced, and the class target
AssignPriors(gt_boxes, labels, anchors_xyxy, fg_iou_threshold, bg_iou_threshold) ==
    IF gt_boxes = <<>>
    THEN [a \in DOMAIN anchors_xyxy |-> [matched |-> 0, forced |-> FALSE, cls |-> 0]]
    ELSE AssignOnMatrix(IoUMatrix(gt_boxes, anchors_xyxy), DOMAIN anchors_xyxy, labels,
                        fg_iou_threshold, bg_iou_threshold)

-----------------------------------------------------------------------------
(* Anchors as box coder: encoding *)

\* self.variances = (0.1, 0.2)
Variances == <<Frac(1, 10), Frac(1, 5)>>

\* a row of integers (quarters) as a box of rationals
FBox(row) == [k \in 1..4 |-> FInt(row[k])]

\* (mutant of EncodeLoc) the sizes are coded with the variance of the centers
EncodeLocOneVariance(anchor, gt_xywh) ==
    << Scale(Num(FDiv(FSub(gt_xywh[1], anchor[1]), anchor[3])), FDiv(FInt(1), Variances[1])),
       Scale(Num(FDiv(FSub(gt_xywh[2], anchor[2]), anchor[4])), FDiv(FInt(1), Variances[1])),
       Scale(TorchLog(FDiv(gt_xywh[3], anchor[3])), FDiv(FInt(1), Variances[1])),
       Scale(TorchLog(FDiv(gt_xywh[4], anchor[4])), FDiv(FInt(1), Variances[1])) >>

\* loc_xy and loc_wh of encode_boxes_from_anchors for one anchor (cx, cy, w, h)
\* and its matched box (cx, cy, w, h)
EncodeLoc(anchor, gt_xywh) ==
    << Scale(Num(FDiv(FSub(gt_xywh[1], anchor[1]), anchor[3])), FDiv(FInt(1), Variances[1])),
       Scale(Num(FDiv(FSub(gt_xywh[2], anchor[2]), anchor[4])), FDiv(FInt(1), Variances[1])),
       Scale(TorchLog(FDiv(gt_xywh[3], anchor[3])), FDiv(FInt(1), Variances[2])),
       Scale(TorchLog(FDiv(gt_xywh[4], anchor[4])), FDiv(FInt(1), Variances[2])) >>

\* boxes, loc_targets and cls_targets of encode_boxes_from_anchors, given
\* what assign_priors returned
EncodeAssigned(anchors, gt_boxes, assigned) ==
    [loc_targets |-> Eager([a \in DOMAIN anchors |->
                        EncodeLoc(FBox(anchors[a]),
                                  XYXY2XYWH(FBox(gt_boxes[assigned[a].matched])))]),
     cls_targets |-> Eager([a \in DOMAIN anchors |-> assigned[a].cls]),
     assigned    |-> assigned]

\* Anchors.encode_boxes_from_anchors: anchors are rows (cx, cy, w, h),
\* gt_boxes rows (x1, y1, x2, y2), labels one label per row
EncodeBoxesFromAnchors(cfg, anchors, gt_boxes, labels) ==
    EncodeAssigned(anchors, gt_boxes,
        AssignPriors(Eager([g \in DOMAIN gt_boxes |-> FBox(gt_boxes[g])]),
                     Eager([g \in DOMAIN labels |-> labels[g] + cfg.label_offset]),
                     Eager([a \in DOMAIN anchors |-> XYWH2XYXY(FBox(anchors[a]))]),
                     cfg.fg_iou_threshold, cfg.bg_iou_threshold))

\* (mutant of EmptyFrameRows) the row written is a row of zeros
EmptyFrameRowsZero == << <<0, 0, 0, 0, 0>> >>

\* torch.ones((1, 5)) * -1: one row (x1, y1, x2, y2, label) of -1
EmptyFrameRows == << <<-Quarter, -Quarter, -Quarter, -Quarter, -1>> >>

\* boxes, labels = targets[t][i][:, :4], targets[t][i][:, -1] and their encoding
EncodeRows(cfg, anchors, rows) ==
    EncodeBoxesFromAnchors(cfg, anchors,
                           Eager([g \in DOMAIN rows |-> SubSeq(rows[g], 1, 4)]),
                           Eager([g \in DOMAIN rows |-> rows[g][5]]))

\* if len(targets[t][i]) == 0: targets[t][i] = torch.ones((1, 5)) * -1
FillEmptyFrame(tg, t, i) ==
    IF Len(tg[t][i]) = 0 THEN [tg EXCEPT ![t][i] = EmptyFrameRows] ELSE tg

\* the body of the loops of encode_txn_boxes for frame (t, i) of the list
\* tg (after FillEmptyFrame): the rows appended to loc_targets and cls_targets
EncodeFrame(cfg, anchors, tg, t, i) == EncodeRows(cfg, anchors, tg[t][i])

\* the loops of encode_txn_boxes from frame (t, i) on
RECURSIVE EncodeLoop(_, _, _, _, _, _)
RECURSIVE EncodeStep(_, _, _, _, _, _, _)
EncodeStep(cfg, anchors, tg, t, i, acc, f) ==
    EncodeLoop(cfg, anchors, tg, t, i + 1,
               [loc_targets |-> Append(acc.loc_targets, f.loc_targets),
                cls_targets |-> Append(acc.cls_targets, f.cls_targets),
                assigned    |-> Append(acc.assigned, f.assigned)])

EncodeLoop(cfg, anchors, tg, t, i, acc) ==
    IF t > Len(tg) THEN [targets |-> tg, loc_targets |-> acc.loc_targets,
                         cls_targets |-> acc.cls_targets, assigned |-> acc.assigned]
    ELSE IF i > Len(tg[t]) THEN EncodeLoop(cfg, anchors, tg, t + 1, 1, acc)
    ELSE EncodeStep(cfg, anchors, FillEmptyFrame(tg, t, i), t, i, acc,
                    EncodeFrame(cfg, anchors, FillEmptyFrame(tg, t, i), t, i))

\* tg[t][i] as [i][t], for a list with as many frames in every time step
Transpose(tg) ==
    IF tg = <<>> THEN <<>>
    ELSE [i \in 1..Len(tg[1]) |-> [t \in 1..Len(tg) |-> tg[t][i]]]

\* (mutant of EncodeTxnBoxes) the loops are nested the other way round:
\* the rows come out batch-major
EncodeTxnBoxesBatchMajor(cfg, anchors, tg) ==
    [EncodeLoop(cfg, anchors, Transpose(tg), 1, 1,
                [loc_targets |-> <<>>, cls_targets |-> <<>>, assigned |-> <<>>])
       EXCEPT !.targets = Transpose(@)]

\* Anchors.encode_txn_boxes after anchors = self(features)
EncodeTxnBoxes(cfg, anchors, tg) ==
    EncodeLoop(cfg, anchors, tg, 1, 1,
               [loc_targets |-> <<>>, cls_targets |-> <<>>, assigned |-> <<>>])

-----------------------------------------------------------------------------
(* Anchors as box coder: decoding *)

\* v + w and v - w of two floats; a value that is not rational stays as it is
NumAdd(v, w) ==
    IF v.kind = "frac" /\ w.kind = "frac" THEN Num(FAdd(v.a, w.a))
    ELSE IF v.kind = "frac" THEN w ELSE v

NumSub(v, w) ==
    IF v.kind = "frac" /\ w.kind = "frac" THEN Num(FSub(v.a, w.a))
    ELSE IF v.kind = "frac" THEN w ELSE v

\* xy, wh and box_preds of decode_boxes_from_anchors for one anchor
\* (cx, cy, w, h) and one row of loc_preds
DecodeBox(anchor, loc) ==
    LET x  == NumAdd(Scale(Scale(loc[1], Variances[1]), anchor[3]), Num(anchor[1]))
        y  == NumAdd(Scale(Scale(loc[2], Variances[1]), anchor[4]), Num(anchor[2]))
        w  == Scale(TorchExp(Scale(loc[3], Variances[2])), anchor[3])
        h  == Scale(TorchExp(Scale(loc[4], Variances[2])), anchor[4])
        w2 == Scale(w, Frac(1, 2))
        h2 == Scale(h, Frac(1, 2))
    IN  << NumSub(x, w2), NumSub(y, h2), NumAdd(x, w2), NumAdd(y, h2) >>

\* a decoded box as a box of rationals
RatBox(b) == [k \in 1..4 |-> b[k].a]

\* the indices of idx in decreasing score, ties in index order
RECURSIVE ByScore(_, _)
ByScore(idx, score) ==
    IF idx = {} THEN <<>>
    ELSE LET h == CHOOSE k \in idx :
                    \A j \in idx : FLt(score[j], score[k]) \/ (score[j] = score[k] /\ k <= j)
         IN  <<h>> \o ByScore(idx \ {h}, score)

\* box.box_nms: greedy suppression of the boxes with IoU >= threshold
RECURSIVE BoxNms(_, _, _)
BoxNms(boxes, order, threshold) ==
    IF order = <<>> THEN <<>>
    ELSE LET h    == Head(order)
             rest == SelectSeq(Tail(order),
                       LAMBDA j : FLt(BoxIoU(boxes[h], boxes[j]), FMilli(threshold)))
         IN  <<h>> \o BoxNms(boxes, rest, threshold)

\* the floor under which box_soft_nms drops a box
SoftNmsFloor == Frac(1, Milli)

\* box.box_soft_nms with linear decay: a box of IoU >= threshold with the
\* kept one has its score multiplied by 1 - IoU and is dropped below the floor
Decayed(boxes, rest, score, threshold, h) ==
    [j \in DOMAIN boxes |->
        IF j \in rest /\ FLe(FMilli(threshold), BoxIoU(boxes[h], boxes[j]))
        THEN FMul(score[j], FSub(FInt(1), BoxIoU(boxes[h], boxes[j])))
        ELSE score[j]]

RECURSIVE BoxSoftNms(_, _, _, _)
SoftNmsRest(boxes, rest, decay, threshold, h) ==
    <<h>> \o BoxSoftNms(boxes, {j \in rest : FLe(SoftNmsFloor, decay[j])}, decay, threshold)

SoftNmsStep(boxes, idx, score, threshold, h) ==
    SoftNmsRest(boxes, idx \ {h}, Eager(Decayed(boxes, idx \ {h}, score, threshold, h)),
                threshold, h)

BoxSoftNms(boxes, idx, score, threshold) ==
    IF idx = {} THEN <<>>
    ELSE SoftNmsStep(boxes, idx, score, threshold, Head(ByScore(idx, score)))

\* self.nms(box, score, nms_thresh): the kept indices
Nms(cfg, boxes, idx, score, threshold) ==
    IF cfg.nms = "box_soft_nms"
    THEN BoxSoftNms(boxes, idx, score, threshold)
    ELSE BoxNms(boxes, ByScore(idx, score), threshold)

\* (mutant of ScoreMask) a score equal to the threshold passes
ScoreMaskInclusive(cp, col, score_thresh) ==
    {a \in DOMAIN cp : cp[a][col] >= score_thresh}

\* mask = score > score_thresh for column col (1-based) of cls_preds
ScoreMask(cp, col, score_thresh) ==
    {a \in DOMAIN cp : cp[a][col] > score_thresh}

\* (mutant of ClassDets) the label is the column of the score
ClassDetsColumn(keep, box_preds, cp, i) ==
    [k \in DOMAIN keep |-> [anchor |-> keep[k],
                            box    |-> box_preds[keep[k]],
                            label  |-> i + 1,
                            score  |-> cp[keep[k]][i + 2]]]

\* boxes.append(box[keep]), labels.append(...fill_(i)), scores.append(score[keep])
\* for class i (0-based), each row with the anchor it comes from
ClassDets(keep, box_preds, cp, i) ==
    [k \in DOMAIN keep |-> [anchor |-> keep[k],
                            box    |-> box_preds[keep[k]],
                            label  |-> i,
                            score  |-> cp[keep[k]][i + 2]]]

\* the body of the class loop of decode_boxes_from_anchors for class i and
\* its mask: whether the class appends, and what
ClassOn(cfg, box_preds, cp, i, mask, nms_thresh) ==
    [any  |-> mask # {},
     dets |-> ClassDets(Nms(cfg, Eager([a \in DOMAIN box_preds |-> RatBox(box_preds[a])]),
                            mask, Eager([a \in DOMAIN cp |-> FMilli(cp[a][i + 2])]),
                            nms_thresh),
                        box_preds, cp, i)]

DecodeClass(cfg, box_preds, cp, i, score_thresh, nms_thresh) ==
    ClassOn(cfg, box_preds, cp, i, ScoreMask(cp, i + 2, score_thresh), nms_thresh)

\* (None, None, None)
NoDetections ==
    [none |-> TRUE, boxes |-> "None", labels |-> "None", scores |-> "None", from |-> <<>>]

\* torch.cat of the appended boxes, labels and scores
Triple(dets) ==
    [none   |-> FALSE,
     boxes  |-> [k \in DOMAIN dets |-> dets[k].box],
     labels |-> [k \in DOMAIN dets |-> dets[k].label],
     scores |-> [k \in DOMAIN dets |-> dets[k].score],
     from   |-> [k \in DOMAIN dets |-> dets[k].anchor]]

\* (mutant of Collect) zero-length arrays stand for a frame without detections
CollectZeroFilled(appended) ==
    Triple(Concat([k \in DOMAIN appended |-> appended[k].dets]))

\* the return of decode_boxes_from_anchors from what the classes appended
Collect(appended) ==
    IF Len(appended) > 0
    THEN Triple(Concat([k \in DOMAIN appended |-> appended[k].dets]))
    ELSE NoDetections

\* the class loop of decode_boxes_from_anchors on the decoded boxes
DecodeOn(cfg, box_preds, cp, score_thresh, nms_thresh) ==
    Collect(SelectSeq(Eager([c \in 1..(Len(cp[1]) - 1) |->
                                DecodeClass(cfg, box_preds, cp, c - 1, score_thresh, nms_thresh)]),
                      LAMBDA d : d.any))

\* Anchors.decode_boxes_from_anchors: (boxes, labels, scores), and the
\* anchor every returned row comes from
DecodeBoxesFromAnchors(cfg, anchors, lp, cp, score_thresh, nms_thresh) ==
    DecodeOn(cfg, Eager([a \in DOMAIN anchors |-> DecodeBox(FBox(anchors[a]), lp[a])]),
             cp, score_thresh, nms_thresh)

\* opts.batch_to_time(x, n): rows t x n + i of x become entry [t][i]
BatchToTime(x, n) ==
    [t \in 1..(Len(x) \div n) |-> [i \in 1..n |-> x[(t - 1) * n + i]]]

\* the nms_thresh decode_txn_boxes passes, in thousandths
TxnNmsThresh == 600

\* Anchors.decode_txn_boxes after anchors = self(features)
DecodeTxnBoxes(cfg, anchors, lp, cp, batchsize, score_thresh) ==
    [t \in 1..(Len(lp) \div batchsize) |->
        [i \in 1..batchsize |->
            DecodeBoxesFromAnchors(cfg, anchors, BatchToTime(lp, batchsize)[t][i],
                                   BatchToTime(cp, batchsize)[t][i],
                                   score_thresh, TxnNmsThresh)]]

-----------------------------------------------------------------------------
(* The encoder: Anchors.encode_txn_boxes on lists of ground-truth frames *)

MaxT    == 2   \* time steps of a list of targets
MaxN    == 2   \* batch elements of a time step
MapH    == 1   \* height of the feature map handed to the box coder
MapW    == 2   \* width of the feature map handed to the box coder

\* the record of a forward call (see AnchorsForward)
ForwardRecord(features, r) ==
    [op       |-> "forward",
     features |-> features,
     levels   |-> r.levels,
     ret      |-> r.ret,
     first    |-> anchorCall.op = "none",
     repeated |-> [k \in DOMAIN features |->
                     /\ anchorCall.op = "forward"
                     /\ Len(anchorCall.features) >= k
                     /\ anchorCall.features[k] = features[k]]]

\* one level of stride 5 with one square anchor of side 5 per cell
CoderKwargs(fg, bg, label_offset, nms_type) ==
    [pyramid_levels   |-> <<1>>,
     strides          |-> <<5>>,
     sizes            |-> <<5>>,
     ratios           |-> <<Ratio(1, 1)>>,
     scales           |-> [dtype |-> "float", vals |-> <<Quarter>>],
     fg_iou_threshold |-> fg,
     bg_iou_threshold |-> bg,
     label_offset     |-> label_offset,
     nms_type         |-> nms_type]

\* the feature maps the backbone hands to the box coder
CoderFeatures(c) ==
    FeaturePyramid(Len(c.anchor_generators), MapH, MapW, c.device, "float32")

\* (fg_iou_threshold, bg_iou_threshold) in thousandths: the defaults, a
\* strict foreground threshold, a wide gray zone, and fg < bg
ThresholdPairs == { <<500, 400>>, <<990, 400>>, <<500, 200>>, <<400, 500>> }

\* ground-truth boxes (x1, y1, x2, y2) in quarters; the anchors of the
\* first row of cells are (0, 0, 20, 20), (20, 0, 40, 20), ...
GtBoxes ==
    << <<0, 0, 20, 18>>,     \* IoU 9/10 with the first anchor, 0 with the others
       <<10, 0, 30, 20>>,    \* IoU 1/3 with the first and the second anchor
       <<20, 0, 40, 20>>,    \* the second anchor
       <<4, 0, 24, 20>>,     \* IoU 2/3 with the first, 1/9 with the second
       <<8, 0, 28, 20>> >>   \* IoU 3/7 with the first, 1/4 with the second

\* a row (x1, y1, x2, y2, label) whose assigned class is cls
GtRow(b, cls, label_offset) == GtBoxes[b] \o <<cls - label_offset>>

\* the frames of one box, and some frames of two boxes
RichFrames(off) ==
    {<<>>}
    \cup { <<GtRow(b, cls, off)>> : b \in DOMAIN GtBoxes, cls \in {1, 3} }
    \cup { <<GtRow(p[1], 1, off), GtRow(p[2], 3, off)>> :
             p \in { <<1, 2>>, <<2, 1>>, <<1, 3>>, <<5, 3>>, <<1, 4>>, <<4, 4>> } }

SmallFrames(off) == { <<>>, <<GtRow(1, 1, off)>>, <<GtRow(3, 3, off)>> }

\* targets[t][i]: one rich frame, or T x N small frames
TargetLists(off) ==
    { << <<f>> >> : f \in RichFrames(off) }
    \cup UNION { [1..T -> [1..N -> SmallFrames(off)]] : T \in 1..MaxT, N \in 1..MaxN }

\* box_coder.encode_txn_boxes(features, targets)
EncodeTxn ==
    /\ \E r \in {AnchorsForwardOn(coder, CoderFeatures(coder))} :
       \E enc \in {EncodeTxnBoxes(coder.cfg, r.ret, targets)} :
           /\ coder' = r.coder
           /\ anchorCall' = ForwardRecord(CoderFeatures(coder), r)
           /\ targets' = enc.targets
           /\ codecCall' = [op          |-> "encode_txn_boxes",
                            given       |-> targets,
                            anchors     |-> r.ret,
                            loc_targets |-> enc.loc_targets,
                            cls_targets |-> enc.cls_targets,
                            assigned    |-> enc.assigned]
    /\ UNCHANGED <<lossVars, detVars, restVars, preds>>

\* the data loader hands over the targets of the next step
NextTargets ==
    /\ codecCall.op = "encode_txn_boxes"
    /\ \E tg \in TargetLists(coder.cfg.label_offset) :
          /\ Len(tg) = MaxT /\ Len(tg[1]) = MaxN
          /\ tg[1][1] # <<>> /\ tg[1][1] = tg[MaxT][MaxN]
          /\ targets' = tg
    /\ codecCall' = NoCodecCall
    /\ UNCHANGED <<coder, anchorCall, preds>>
    /\ UNCHANGED <<lossVars, detVars, restVars>>

EncoderInit ==
    /\ \E th \in ThresholdPairs, off \in {0, 1} :
          /\ coder = AnchorsNew(CoderKwargs(th[1], th[2], off, "soft_nms"))
          /\ targets \in TargetLists(off)
    /\ anchorCall = NoAnchorCall
    /\ codecCall = NoCodecCall
    /\ preds = NoPreds

EncoderNext == EncodeTxn \/ NextTargets

InitEncoder == LossIdle /\ EncoderInit /\ DetIdle /\ RestIdle

SpecEncoder == InitEncoder /\ [][EncoderNext]_vars

-----------------------------------------------------------------------------
(* Properties of the encoder *)

Encoded == codecCall.op = "encode_txn_boxes"

\* the frames (t, i) of a list of targets
FramesOf(tg) == { <<t, i>> : t \in DOMAIN tg, i \in 1..MaxN } \cap
                UNION { {<<t, i>> : i \in DOMAIN tg[t]} : t \in DOMAIN tg }

\* the time-major row of frame (t, i) in a list of N frames per time step
RowOf(tg, f) == (f[1] - 1) * Len(tg[1]) + f[2]

\* C11: no Anchors object with fg_iou_threshold < bg_iou_threshold reaches
\* an encode or forward call: constructing it fails.
C11_ThresholdOrderEnforced ==
    (Encoded \/ Forwarded) =>
        coder.cfg.fg_iou_threshold >= coder.cfg.bg_iou_threshold

\* the configuration is one the specification allows
ValidThresholds == coder.cfg.fg_iou_threshold >= coder.cfg.bg_iou_threshold

\* the corners of a row (x1, y1, x2, y2, ...) as floats
Corners(row) == [k \in 1..4 |-> Num(FInt(row[k]))]

\* the ground-truth row matched to anchor a in the encoding of frame f
MatchedRow(f, a) ==
    targets[f[1]][f[2]][codecCall.assigned[RowOf(targets, f)][a].matched]

\* C12: decoding the regression target that encode_boxes_from_anchors
\* produced for an anchor and its matched box of positive width and height
\* gives back the corners (x1, y1, x2, y2) of the matched box.
C12_CoderRoundTrip ==
    Encoded =>
        \A f \in FramesOf(targets), a \in DOMAIN codecCall.anchors :
            (MatchedRow(f, a)[3] > MatchedRow(f, a)[1] /\ MatchedRow(f, a)[4] > MatchedRow(f, a)[2])
            => DecodeBox(FBox(codecCall.anchors[a]),
                         codecCall.loc_targets[RowOf(targets, f)][a])
               = Corners(MatchedRow(f, a))

\* an anchor was encoded against a box of another size and another center
C12_Witness ==
    /\ Encoded
    /\ \E f \in FramesOf(targets), a \in DOMAIN codecCall.anchors :
          /\ MatchedRow(f, a)[3] > MatchedRow(f, a)[1]
          /\ MatchedRow(f, a)[4] > MatchedRow(f, a)[2]
          /\ codecCall.loc_targets[RowOf(targets, f)][a][4].kind = "ln"
          /\ codecCall.loc_targets[RowOf(targets, f)][a][1].a.n # 0

\* C13: every ground-truth box of every frame has at least one anchor
\* assigned positive to it, with class target label + label_offset.
C13_EveryBoxHasAnAnchor ==
    (Encoded /\ ValidThresholds) =>
        \A f \in FramesOf(codecCall.given) :
            \A g \in DOMAIN codecCall.given[f[1]][f[2]] :
                \E a \in DOMAIN codecCall.anchors :
                    /\ codecCall.assigned[RowOf(codecCall.given, f)][a].matched = g
                    /\ codecCall.cls_targets[RowOf(codecCall.given, f)][a]
                         = codecCall.given[f[1]][f[2]][g][5] + coder.cfg.label_offset

\* the IoU of ground-truth row gt with anchor a of the last encode call
IoUWith(gt, a) == BoxIoU(FBox(gt), XYWH2XYXY(FBox(codecCall.anchors[a])))

\* the ground-truth rows of gts whose best-matching anchor is a
ForcedOn(gts, a) ==
    { g \in DOMAIN gts :
        /\ \A b \in DOMAIN codecCall.anchors : FLe(IoUWith(gts[g], b), IoUWith(gts[g], a))
        /\ \A b \in 1..(a - 1) : FLt(IoUWith(gts[g], b), IoUWith(gts[g], a)) }

\* the ground-truth rows of gts of maximum IoU with anchor a
BestOn(gts, a) ==
    { g \in DOMAIN gts : \A h \in DOMAIN gts : FLe(IoUWith(gts[h], a), IoUWith(gts[g], a)) }

\* the state the assignment rule gives anchor a in a frame of rows gts:
\* the set of class targets it allows
StateOf(gts, a) ==
    IF ForcedOn(gts, a) # {}
    THEN { gts[g][5] + coder.cfg.label_offset : g \in ForcedOn(gts, a) }
    ELSE IF \E g \in DOMAIN gts : FLe(FMilli(coder.cfg.fg_iou_threshold), IoUWith(gts[g], a))
    THEN { gts[g][5] + coder.cfg.label_offset : g \in BestOn(gts, a) }
    ELSE IF \A g \in DOMAIN gts : FLt(IoUWith(gts[g], a), FMilli(coder.cfg.bg_iou_threshold))
    THEN {0}
    ELSE {-1}

\* C14: after assignment every anchor of a frame is positive with the
\* matched label if its maximum IoU is >= fg_threshold or it is a forced best
\* match, background (0) if its maximum IoU is < bg_threshold and it is not
\* forced, ignored (-1) otherwise; one box of class 3 with IoU 0.9 with one
\* anchor and < 0.1 with the others (fg 0.5, bg 0.4) gives one positive of
\* class 3, no ignored anchor, background for the rest.
C14_ThreeStates ==
    (Encoded /\ ValidThresholds) =>
        \A f \in FramesOf(codecCall.given) :
            LET gts == codecCall.given[f[1]][f[2]]
                cls == codecCall.cls_targets[RowOf(codecCall.given, f)]
            IN  /\ \A a \in DOMAIN codecCall.anchors : cls[a] \in StateOf(gts, a)
                /\ ( /\ Len(gts) = 1
                     /\ SubSeq(gts[1], 1, 4) = GtBoxes[1]
                     /\ gts[1][5] + coder.cfg.label_offset = 3
                     /\ coder.cfg.fg_iou_threshold = 500
                     /\ coder.cfg.bg_iou_threshold = 400 )
                   => /\ Cardinality({a \in DOMAIN cls : cls[a] = 3}) = 1
                      /\ \A a \in DOMAIN cls : cls[a] \in {0, 3}

\* C15: a frame with zero ground-truth boxes gets class target 0 for every
\* anchor: none positive, none ignored, for label_offset 0 and 1.
C15_EmptyFrameAllBackground ==
    (Encoded /\ ValidThresholds) =>
        \A f \in FramesOf(codecCall.given) :
            codecCall.given[f[1]][f[2]] = <<>>
            => \A a \in DOMAIN codecCall.anchors :
                  codecCall.cls_targets[RowOf(codecCall.given, f)][a] = 0

\* the encoding of frame f of the given list alone
AloneOf(f) ==
    EncodeTxnBoxes(coder.cfg, codecCall.anchors, << <<codecCall.given[f[1]][f[2]]>> >>)

\* C18: row t x N + i of loc_targets and cls_targets of encode_txn_boxes is
\* the encoding of frame (t, i) alone against the shared anchors, whatever
\* the other frames hold and wherever the frame is in the list.
C18_FramesIndependent ==
    Encoded =>
        /\ Len(codecCall.cls_targets) = Cardinality(FramesOf(codecCall.given))
        /\ Len(codecCall.loc_targets) = Cardinality(FramesOf(codecCall.given))
        /\ \A f \in FramesOf(codecCall.given) :
              /\ codecCall.cls_targets[RowOf(codecCall.given, f)] = AloneOf(f).cls_targets[1]
              /\ codecCall.loc_targets[RowOf(codecCall.given, f)] = AloneOf(f).loc_targets[1]

\* two time steps of two frames, frames (1, 2) and (2, 1) encoded differently
C18_Witness ==
    /\ Encoded
    /\ Len(codecCall.given) = 2 /\ Len(codecCall.given[1]) = 2
    /\ codecCall.cls_targets[2] # codecCall.cls_targets[3]

-----------------------------------------------------------------------------
(* The decoder: Anchors.decode_txn_boxes on the outputs of the network *)

MaxFg == 2   \* foreground classes: cls_preds has 1 + MaxFg columns at most

\* values of the nms_type option: the default, and the two documented names
NmsTypes == {"soft_nms", "soft", "hard"}

\* score_thresh and the scores of cls_preds, in thousandths
ScoreThreshs == {400, 600}
Scores       == {400, 600, 900}
BgScore      == 900

\* the anchors the coder generates for the feature maps of the backbone
CoderAnchors(c) == AnchorsForwardOn(c, CoderFeatures(c)).ret

\* a row of loc_preds without offset: the anchor itself
ZeroLoc == [k \in 1..4 |-> Num(FInt(0))]

\* loc_preds of one frame: every anchor predicts itself, or the second
\* anchor predicts a box of IoU 2/3 with the first
LocFrames(anchors) ==
    { [a \in DOMAIN anchors |-> ZeroLoc],
      [a \in DOMAIN anchors |->
          IF a = 2 THEN EncodeLoc(FBox(anchors[a]), XYXY2XYWH(FBox(GtBoxes[4])))
          ELSE ZeroLoc] }

\* rows of cls_preds with fg foreground columns after the background column
ClsRows(fg) == { <<BgScore>> \o sc : sc \in [1..fg -> Scores] }

\* cls_preds of one frame, any scores
RichCls(A) == UNION { [1..A -> ClsRows(fg)] : fg \in 1..MaxFg }

\* cls_preds of one frame with one foreground class: no score above any
\* threshold, one anchor above, every anchor above the lower threshold
SmallCls(A) ==
    { [a \in 1..A |-> <<BgScore, 400>>],
      [a \in 1..A |-> IF a = 1 THEN <<BgScore, 900>> ELSE <<BgScore, 400>>],
      [a \in 1..A |-> IF a = 1 THEN <<BgScore, 900>> ELSE <<BgScore, 600>>] }

\* the arguments of decode_txn_boxes besides features: one rich frame, or
\* T x N small frames
PredLists(anchors) ==
    { [op |-> "preds", loc_preds |-> <<lp>>, cls_preds |-> <<cp>>,
       batchsize |-> 1, score_thresh |-> st] :
         lp \in LocFrames(anchors), cp \in RichCls(Len(anchors)), st \in ScoreThreshs }
    \cup UNION { { [op |-> "preds", loc_preds |-> [r \in 1..(T * N) |-> lp], cls_preds |-> cp,
                    batchsize |-> N, score_thresh |-> st] :
                      lp \in LocFrames(anchors),
                      cp \in [1..(T * N) -> SmallCls(Len(anchors))],
                      st \in ScoreThreshs } : T \in 1..MaxT, N \in 1..MaxN }

\* box_coder.decode_txn_boxes(features, loc_preds, cls_preds, batchsize, score_thresh)
DecodeTxn ==
    /\ preds.op = "preds"
    /\ \E r \in {AnchorsForwardOn(coder, CoderFeatures(coder))} :
       \E ret \in {DecodeTxnBoxes(coder.cfg, r.ret, preds.loc_preds, preds.cls_preds,
                                  preds.batchsize, preds.score_thresh)} :
           /\ coder' = r.coder
           /\ anchorCall' = ForwardRecord(CoderFeatures(coder), r)
           /\ codecCall' = [op           |-> "decode_txn_boxes",
                            anchors      |-> r.ret,
                            loc_preds    |-> preds.loc_preds,
                            cls_preds    |-> preds.cls_preds,
                            batchsize    |-> preds.batchsize,
                            score_thresh |-> preds.score_thresh,
                            ret          |-> ret]
    /\ UNCHANGED <<lossVars, detVars, restVars, targets, preds>>

DecoderInit ==
    /\ \E nms_type \in NmsTypes :
          /\ coder = AnchorsNew(CoderKwargs(Quot(Milli, 2), Quot(2 * Milli, 5), 0, nms_type))
          /\ preds \in PredLists(CoderAnchors(coder))
    /\ anchorCall = NoAnchorCall
    /\ targets = NoTargets
    /\ codecCall = NoCodecCall

DecoderNext == DecodeTxn

InitDecoder == LossIdle /\ DecoderInit /\ DetIdle /\ RestIdle

SpecDecoder == InitDecoder /\ [][DecoderNext]_vars

-----------------------------------------------------------------------------
(* Properties of the decoder *)

Decoded == codecCall.op = "decode_txn_boxes"

\* the frames (t, i) of the last decode call
DecodedFrames ==
    { <<t, i>> : t \in 1..(Len(codecCall.cls_preds) \div codecCall.batchsize),
                 i \in 1..codecCall.batchsize }

\* cls_preds and loc_preds of frame f as passed: row t x N + i
FrameCls(f) == codecCall.cls_preds[(f[1] - 1) * codecCall.batchsize + f[2]]
FrameLoc(f) == codecCall.loc_preds[(f[1] - 1) * codecCall.batchsize + f[2]]

\* some foreground column of frame f holds a score above score_thresh
HasForeground(f) ==
    \E a \in DOMAIN FrameCls(f) : \E c \in 2..Len(FrameCls(f)[a]) :
        FrameCls(f)[a][c] > codecCall.score_thresh

\* C16: decode_txn_boxes returns one (boxes, labels, scores) triple per
\* (time step, batch element); the triple is (None, None, None) exactly when
\* no foreground column of the frame has a score > score_thresh, and
\* otherwise boxes, labels and scores have the same length.
C16_OneTriplePerFrame ==
    Decoded =>
        /\ Len(codecCall.ret) * codecCall.batchsize = Len(codecCall.cls_preds)
        /\ \A t \in DOMAIN codecCall.ret : Len(codecCall.ret[t]) = codecCall.batchsize
        /\ \A f \in DecodedFrames :
              /\ codecCall.ret[f[1]][f[2]].none <=> ~HasForeground(f)
              /\ codecCall.ret[f[1]][f[2]].none => codecCall.ret[f[1]][f[2]] = NoDetections
              /\ ~codecCall.ret[f[1]][f[2]].none =>
                    /\ Len(codecCall.ret[f[1]][f[2]].boxes) = Len(codecCall.ret[f[1]][f[2]].labels)
                    /\ Len(codecCall.ret[f[1]][f[2]].scores) = Len(codecCall.ret[f[1]][f[2]].labels)

\* two time steps of two frames, one without and one with detections
C16_Witness ==
    /\ Decoded
    /\ Len(codecCall.ret) = 2 /\ codecCall.batchsize = 2
    /\ codecCall.ret[1][2].none
    /\ ~codecCall.ret[2][1].none

\* the returned rows of a triple: (label, anchor, box, score)
Rows(d) ==
    IF d.none THEN <<>>
    ELSE [k \in DOMAIN d.from |-> <<d.labels[k], d.from[k], d.boxes[k], d.scores[k]>>]

\* the rows of class l, without their label
ClassRows(d, l) ==
    LET sel == SelectSeq(Rows(d), LAMBDA r : r[1] = l)
    IN  [k \in DOMAIN sel |-> Tail(sel[k])]

\* cls_preds reduced to the background column and the column of class l
OnlyClass(cp, l) == [a \in DOMAIN cp |-> <<cp[a][1], cp[a][l + 2]>>]

\* the decoding of frame f with the column of class l as only foreground
ClassAlone(f, l) ==
    DecodeBoxesFromAnchors(coder.cfg, codecCall.anchors, FrameLoc(f),
                           OnlyClass(FrameCls(f), l), codecCall.score_thresh, TxnNmsThresh)

\* C17: every returned detection comes from an anchor whose score in a
\* foreground column c >= 1 is > score_thresh and carries class id c - 1
\* (never the background column); the detections are in increasing class id
\* and those of a class are what NMS keeps of that class alone.
C17_PerClassThresholdAndOrder ==
    Decoded =>
        \A f \in DecodedFrames :
            LET d  == codecCall.ret[f[1]][f[2]]
                cp == FrameCls(f)
            IN  /\ \A k \in DOMAIN Rows(d) :
                      /\ Rows(d)[k][1] \in 0..(Len(cp[1]) - 2)
                      /\ cp[Rows(d)[k][2]][Rows(d)[k][1] + 2] > codecCall.score_thresh
                /\ \A j, k \in DOMAIN Rows(d) : j < k => Rows(d)[j][1] <= Rows(d)[k][1]
                /\ \A l \in 0..(Len(cp[1]) - 2) : ClassRows(d, l) = ClassRows(ClassAlone(f, l), 0)

\* detections of two classes, next to a foreground score equal to the threshold
C17_Witness ==
    /\ Decoded
    /\ \E f \in DecodedFrames :
          /\ ~codecCall.ret[f[1]][f[2]].none
          /\ \E j, k \in DOMAIN codecCall.ret[f[1]][f[2]].labels :
                codecCall.ret[f[1]][f[2]].labels[j] # codecCall.ret[f[1]][f[2]].labels[k]
          /\ \E a \in DOMAIN FrameCls(f) : \E c \in 2..Len(FrameCls(f)[a]) :
                FrameCls(f)[a][c] = codecCall.score_thresh

\* the result of the last decode call had the coder used the given NMS
DecodedWith(nms) ==
    DecodeTxnBoxes([coder.cfg EXCEPT !.nms = nms], codecCall.anchors, codecCall.loc_preds,
                   codecCall.cls_preds, codecCall.batchsize, codecCall.score_thresh)

\* C19: with nms_type = 'soft' the decoder uses soft NMS, with
\* nms_type = 'hard' it uses hard (greedy) NMS.
C19_NmsTypeSelectsAlgorithm ==
    Decoded =>
        /\ coder.cfg.nms_type = "soft" => codecCall.ret = DecodedWith("box_soft_nms")
        /\ coder.cfg.nms_type = "hard" => codecCall.ret = DecodedWith("box_nms")

-----------------------------------------------------------------------------
(* Anchors.forward on any number of feature maps *)

\* box_coder(features) with n feature maps, n not tied to the levels
AnchorsForwardAny ==
    /\ \E n \in 1..(MaxLevels + 1), height \in 1..MaxH, width \in 1..MaxW :
         \E features \in {FeaturePyramid(n, height, width, coder.device, "float32")} :
         \E r \in {AnchorsForwardOn(coder, features)} :
             /\ coder' = r.coder
             /\ anchorCall' = ForwardRecord(features, r)
    /\ UNCHANGED <<lossVars, detVars, restVars, codecVars>>

ForwardNext == AnchorsForwardAny

SpecForward == InitAnchors /\ [][ForwardNext]_vars

\* C20: a forward call with a number of feature maps that differs from the
\* number of anchor generators fails: no such call returns an anchor set.
C20_CountMismatchRaises ==
    Forwarded => Len(anchorCall.features) = Len(coder.anchor_generators)

-----------------------------------------------------------------------------
(* Properties of hard negative mining *)

Mined == Called("ssd") /\ mode = "ohem"

\* the non-positive anchors of batch element i
NonPositives(i) == {a \in AnchorIdx : ~lossCall.ret.pos[i][a]}

\* C21: in 'ohem' mode the ranking of the negatives is a stable sort: of
\* two negatives of a batch element with equal loss, the one with the higher
\* anchor index is retained only if the one with the lower index is.
C21_StableNegativeRanking ==
    Mined =>
        \A i \in Batch : \A a, b \in NonPositives(i) :
            ( /\ a < b
              /\ lossCall.ret.per[i][a] = lossCall.ret.per[i][b]
              /\ lossCall.ret.neg[i][b] )
            => lossCall.ret.neg[i][a]

\* C23: in 'ohem' mode no non-positive anchor left out of the
\* classification sum has a strictly larger loss than a non-positive anchor
\* of the same batch element that is in the sum.
C23_HighestLossRetained ==
    Mined =>
        \A i \in Batch : \A a, b \in NonPositives(i) :
            (lossCall.ret.included[i][b] /\ ~lossCall.ret.included[i][a])
            => lossCall.ret.per[i][a] <= lossCall.ret.per[i][b]

\* an element where the limit leaves a negative out and keeps one of
\* strictly larger loss
C23_Witness ==
    /\ Mined
    /\ \E i \in Batch : \E a, b \in NonPositives(i) :
          /\ RowCount(lossCall.ret.pos[i]) >= 1
          /\ lossCall.ret.included[i][b] /\ ~lossCall.ret.included[i][a]
          /\ lossCall.ret.per[i][a] < lossCall.ret.per[i][b]

-----------------------------------------------------------------------------
(* The localization loss: SSDLoss.forward on boxes that differ at one anchor *)

\* rows of loc_preds / loc_targets: two boxes (x1, y1, x2, y2) in
\* thousandths, a row of nan and a row of inf
LocRows ==
    { [k \in 1..LocDim |-> 0],
      <<0, 0, 2 * Milli, Milli>>,
      [k \in 1..LocDim |-> LocNaN],
      [k \in 1..LocDim |-> LocInf] }

\* the tensor of rows base with the row of slot H replaced
LocOf(base, H, row) ==
    Tensor2(LAMBDA i, a : IF <<i, a>> = H THEN row ELSE [k \in 1..LocDim |-> base])

\* the rows (target, prediction) of the replaced slot
LocRowPairs ==
    { <<rt, [k \in 1..LocDim |-> 0]>> : rt \in LocRows }
    \cup { <<[k \in 1..LocDim |-> 0], rp>> : rp \in LocRows }

\* the slots of the first batch element, or no slot
FirstOrNone == ({1} \X AnchorIdx) \cup {<<0, 0>>}

LocInit ==
    /\ mode \in {"focal", "ce"} /\ use_sigmoid = FALSE
    /\ use_iou \in BOOLEAN
    /\ \E P \in [1..MaxPos -> FirstOrNone], lab \in [1..MaxPos -> FgLabels],
          G \in [1..MaxIgn -> FirstOrNone] :
          cls_targets = TargetsOf(P, lab, G)
    /\ cls_preds = Tensor2(LAMBDA i, a : DefaultPred)
    /\ \E H \in {1} \X AnchorIdx, rows \in LocRowPairs :
          /\ loc_targets = LocOf(0, H, rows[1])
          /\ loc_preds = LocOf(Quot(Milli, 2), H, rows[2])
    /\ lossCall = NoCall

LocNext == SSDForward

InitLoc == LocInit /\ AnchorIdle /\ DetIdle /\ RestIdle /\ CodecIdle

SpecLoc == InitLoc /\ [][LocNext]_vars

\* the loc_loss values SSDLoss.forward can return on the boxes lp, lt with
\* the class tensors of the last call
LocLossFor(lp, lt) ==
    {r.loc_loss : r \in SSDLossForward(mode, use_sigmoid, use_iou, lp, lt,
                                       cls_preds, lossCall.given)}

\* C22: loc_loss of SSDLoss.forward reads the positive anchors only:
\* replacing the row of loc_preds or of loc_targets at a background or
\* ignored anchor, by finite or non-finite values, leaves loc_loss as it
\* is, with smooth L1 and with the bounded IoU loss.
C22_LocLossOverPositivesOnly ==
    Called("ssd") =>
        \A s \in Slots : Given(s) <= 0 =>
            \A row \in LocRows :
                /\ LocLossFor([loc_preds EXCEPT ![s[1]][s[2]] = row], loc_targets)
                     = {lossCall.ret.loc_loss}
                /\ LocLossFor(loc_preds, [loc_targets EXCEPT ![s[1]][s[2]] = row])
                     = {lossCall.ret.loc_loss}

\* a bounded-IoU call with a finite, non-zero loc_loss on tensors with a
\* non-finite target at a non-positive anchor
C22_Witness ==
    /\ Called("ssd") /\ use_iou
    /\ lossCall.ret.loc_loss.kind = "fin" /\ lossCall.ret.loc_loss.v > 0
    /\ \E s \in Slots : Given(s) <= 0 /\ ~IsFinite(At(loc_targets, s)[1])

-----------------------------------------------------------------------------
(* The caller's list of targets after encode_txn_boxes *)

\* C25: encode_txn_boxes writes into the list of the caller: every empty
\* entry targets[t][i] is replaced by one row of five values -1, every
\* non-empty entry is left as it was, and no entry is empty after the call.
C25_EmptyEntriesReplacedInPlace ==
    Encoded =>
        /\ DOMAIN targets = DOMAIN codecCall.given
        /\ \A t \in DOMAIN targets : DOMAIN targets[t] = DOMAIN codecCall.given[t]
        /\ \A f \in FramesOf(codecCall.given) :
              /\ codecCall.given[f[1]][f[2]] = <<>>
                   => targets[f[1]][f[2]] = << <<-Quarter, -Quarter, -Quarter, -Quarter, -1>> >>
              /\ codecCall.given[f[1]][f[2]] # <<>>
                   => targets[f[1]][f[2]] = codecCall.given[f[1]][f[2]]
              /\ targets[f[1]][f[2]] # <<>>

\* a list with an empty and a non-empty frame was encoded
C25_Witness ==
    /\ Encoded
    /\ \E f, g \in FramesOf(codecCall.given) :
          /\ codecCall.given[f[1]][f[2]] = <<>>
          /\ codecCall.given[g[1]][g[2]] # <<>>

-----------------------------------------------------------------------------
(* Encoding a list of targets and decoding predictions that equal them *)

MaxLabel == 2   \* ground-truth labels range over 0..MaxLabel

\* columns of cls_preds: background and the classes 1..MaxLabel + 1
NumCols == MaxLabel + 2

\* scores of a prediction, in thousandths
Confident   == 900
Unconfident == 100
RoundTripThresh == 400

\* frames of one ground-truth box with a raw label
LabelFrames == { <<GtBoxes[b] \o <<L>>>> : b \in {1, 3, 4}, L \in 0..MaxLabel }

\* one frame, or one time step of MaxN frames
LabelLists ==
    { << <<f>> >> : f \in LabelFrames } \cup { <<fs>> : fs \in [1..MaxN -> LabelFrames] }

\* class scores that are confident exactly in the column of the class
\* target (in no column for an ignored anchor)
PredictedCls(cls) ==
    [a \in DOMAIN cls |->
        [c \in 1..NumCols |-> IF cls[a] = c - 1 THEN Confident ELSE Unconfident]]

\* the network predicts what the encoder produced
PredictTargets ==
    /\ codecCall.op = "encode_txn_boxes"
    /\ preds' = [op           |-> "preds",
                 loc_preds    |-> codecCall.loc_targets,
                 cls_preds    |-> [r \in DOMAIN codecCall.cls_targets |->
                                      PredictedCls(codecCall.cls_targets[r])],
                 batchsize    |-> Len(codecCall.given[1]),
                 score_thresh |-> RoundTripThresh,
                 of           |-> codecCall]
    /\ UNCHANGED <<lossVars, anchorVars, detVars, restVars, targets, codecCall>>

RoundTripInit ==
    /\ \E off \in {0, 1}, nms_type \in {"soft_nms", "hard"} :
          coder = AnchorsNew(CoderKwargs(Quot(Milli, 2), Quot(2 * Milli, 5), off, nms_type))
    /\ targets \in LabelLists
    /\ anchorCall = NoAnchorCall
    /\ codecCall = NoCodecCall
    /\ preds = NoPreds

RoundTripNext == EncodeTxn \/ PredictTargets \/ DecodeTxn

InitRoundTrip == LossIdle /\ RoundTripInit /\ DetIdle /\ RestIdle

SpecRoundTrip == InitRoundTrip /\ [][RoundTripNext]_vars

\* the anchors that the encoding of frame f made positive for its row g
PositivesOf(f, g) ==
    { a \in DOMAIN preds.of.anchors :
        /\ preds.of.assigned[RowOf(preds.of.given, f)][a].matched = g
        /\ \/ preds.of.assigned[RowOf(preds.of.given, f)][a].forced
           \/ FLe(FMilli(coder.cfg.fg_iou_threshold),
                  IoUWith(preds.of.given[f[1]][f[2]][g], a)) }

\* the labels of the detections of frame f that come from the anchors A
LabelsFrom(f, A) ==
    { Rows(codecCall.ret[f[1]][f[2]])[k][1] :
        k \in { j \in DOMAIN Rows(codecCall.ret[f[1]][f[2]]) :
                  Rows(codecCall.ret[f[1]][f[2]])[j][2] \in A } }

\* C24: a ground-truth label L is encoded on its positive anchors as class
\* target L + label_offset; a prediction confident exactly in that column
\* is decoded as class id L + label_offset - 1, which is L when
\* label_offset = 1; with label_offset = 0 a label 0 is encoded as class
\* target 0, the value of background, and gives no detection.
C24_LabelRoundTrip ==
    (Decoded /\ preds.op = "preds") =>
        \A f \in FramesOf(preds.of.given) : \A g \in DOMAIN preds.of.given[f[1]][f[2]] :
            LET L   == preds.of.given[f[1]][f[2]][g][5]
                off == coder.cfg.label_offset
            IN  /\ PositivesOf(f, g) # {}
                /\ \A a \in PositivesOf(f, g) :
                      preds.of.cls_targets[RowOf(preds.of.given, f)][a] = L + off
                /\ L + off >= 1 => LabelsFrom(f, PositivesOf(f, g)) = {L + off - 1}
                /\ (L + off >= 1 /\ off = 1) => LabelsFrom(f, PositivesOf(f, g)) = {L}
                /\ L + off = 0 => LabelsFrom(f, PositivesOf(f, g)) = {}

\* label_offset 0: a frame of label 0 decoded to nothing next to a frame of
\* label MaxLabel decoded as MaxLabel - 1
C24_Witness ==
    /\ Decoded /\ preds.op = "preds"
    /\ coder.cfg.label_offset = 0
    /\ \E f, h \in FramesOf(preds.of.given) :
          /\ preds.of.given[f[1]][f[2]][1][5] = 0
          /\ codecCall.ret[f[1]][f[2]].none
          /\ preds.of.given[h[1]][h[2]][1][5] = MaxLabel
          /\ LabelsFrom(h, PositivesOf(h, 1)) = {MaxLabel - 1}

-----------------------------------------------------------------------------
(* ConvLSTMCell: the sequential part of a convolutional LSTM.  Feature maps
   are 1 x 1, so a tensor [n, c, 1, 1] is a sequence over the batch of
   sequences over the channels; values are thousandths, LocNaN is nan *)

HiddenDim == 4    \* hidden_dim of the cell
CellBatch == 2    \* n, the streams of a batch
MaxFrames == 3    \* frames fed to one cell over its life
MaxCalls  == 3    \* calls made on one cell over its life

Groups == 4       \* conv_h2h: groups=4

\* a field that holds None, a tensor [n, hidden_dim, 1, 1], or the tensor of
\* zeros of shape [c, hidden_dim, w] that a 4-D input makes
NoneT      == [kind |-> "none", v |-> <<>>]
TensorT(v) == [kind |-> "tensor", v |-> v]
Misshaped  == [kind |-> "misshaped", v |-> <<>>]

\* a * b of two float values (no infinite value arises in the cell)
FloatMul(a, b) ==
    IF a = LocNaN \/ b = LocNaN THEN LocNaN ELSE Quot(a * b, Milli)

\* torch.clamp(x, lo, hi)
Clamp(x, lo, hi) ==
    IF x = LocNaN THEN LocNaN ELSE IF x < lo THEN lo ELSE IF x > hi THEN hi ELSE x

\* the gates of a cell built with hard=True (the saturation cost they
\* accumulate is not part of the state modelled here)
hard_sigmoid(x) == Clamp(FloatAdd(FloatMul(x, Quot(Milli, 2)), Quot(Milli, 2)), 0, Milli)
hard_tanh(x)    == Clamp(x, -Milli, Milli)

\* the parameters of conv_h2h at the centre of its kernel: on a 1 x 1 map
\* the padding leaves only that weight in play
ConvWeight(oc) == IF oc % 2 = 1 THEN Quot(Milli, 2) ELSE -Quot(Milli, 2)
ConvBias(oc)   == Quot(Milli, 10)

\* the input channels that output channel oc of the grouped convolution reads
GroupOf(oc) ==
    LET g == (oc - 1) \div ((4 * HiddenDim) \div Groups)
        w == HiddenDim \div Groups
    IN  (g * w + 1)..((g + 1) * w)

RECURSIVE GroupSum(_, _, _)
GroupSum(hn, oc, S) ==
    IF S = {} THEN ConvBias(oc)
    ELSE LET ic == CHOOSE x \in S : TRUE
         IN  FloatAdd(FloatMul(ConvWeight(oc), hn[ic]), GroupSum(hn, oc, S \ {ic}))

\* conv_h2h(prev_h)
ConvH2H(h) ==
    [n \in DOMAIN h |-> [oc \in 1..(4 * HiddenDim) |-> GroupSum(h[n], oc, GroupOf(oc))]]

\* one iteration of the loop of forward
LSTMStep(prev_h, prev_c, xt) ==
    LET conv == Eager(ConvH2H(prev_h))
        tmp(n, oc) == FloatAdd(conv[n][oc], xt[n][oc])
        i(n, k) == hard_sigmoid(tmp(n, k))
        f(n, k) == hard_sigmoid(tmp(n, HiddenDim + k))
        o(n, k) == hard_sigmoid(tmp(n, 2 * HiddenDim + k))
        g(n, k) == hard_tanh(tmp(n, 3 * HiddenDim + k))
        c == Eager([n \in DOMAIN xt |-> Eager([k \in 1..HiddenDim |->
                 FloatAdd(FloatMul(f(n, k), prev_c[n][k]), FloatMul(i(n, k), g(n, k)))])])
        h == Eager([n \in DOMAIN xt |-> Eager([k \in 1..HiddenDim |->
                 FloatMul(o(n, k), hard_tanh(c[n][k]))])])
    IN  [h |-> h, c |-> c]

\* the loop of forward over the frames of xiseq
RECURSIVE LSTMLoop(_, _, _, _)
LSTMLoop(h, c, xiseq, result) ==
    IF xiseq = <<>> THEN [h |-> h, c |-> c, result |-> result]
    ELSE LET s == LSTMStep(h, c, Head(xiseq))
         IN  LSTMLoop(s.h, s.c, Tail(xiseq), Append(result, s.h))

\* torch.zeros(shape): shape is taken from xiseq[0][0], which is a frame
\* [n, c, h, w] of a 5-D input but one sample [c, h, w] of a 4-D input
ZerosFor(xi) ==
    IF xi.dims = 5
    THEN TensorT([n \in DOMAIN xi.frames[1] |-> [k \in 1..HiddenDim |-> 0]])
    ELSE Misshaped

\* (mutant of LSTMStart) every call starts from zeros
LSTMStartFresh(st, xi) ==
    [prev_h |-> ZerosFor(xi), prev_c |-> ZerosFor(xi)]

\* the state a forward call starts from
LSTMStart(st, xi) ==
    IF st.prev_h.kind # "none" THEN st
    ELSE [prev_h |-> ZerosFor(xi), prev_c |-> ZerosFor(xi)]

\* ConvLSTMCell.forward(xi) on a cell in state st: the state it leaves and
\* what it returns.  conv_h2h raises on the misshaped zeros
LSTMForward(st, xi) ==
    LET start == LSTMStart(st, xi)
    IN  IF start.prev_h.kind = "misshaped"
        THEN [cell |-> start, raised |-> TRUE, out |-> <<>>]
        ELSE LET r == LSTMLoop(start.prev_h.v, start.prev_c.v, xi.frames, <<>>)
             IN  [cell   |-> [prev_h |-> TensorT(r.h), prev_c |-> TensorT(r.c)],
                  raised |-> FALSE,
                  out    |-> IF xi.dims = 5 THEN r.result ELSE r.h]

\* prev_h *= mask, mask of shape [n, 1, 1, 1]
MaskMul(t, mask) ==
    TensorT(Eager([n \in DOMAIN t.v |-> Eager([k \in DOMAIN t.v[n] |-> FloatMul(t.v[n][k], mask[n])])]))

\* (mutant of LSTMReset) a mask is ignored and the state always cleared
LSTMResetClear(st, mask) ==
    [cell |-> [prev_h |-> NoneT, prev_c |-> NoneT], raised |-> FALSE]

\* ConvLSTMCell.reset(mask).  The in-place product raises on the misshaped
\* zeros, whose shape the mask does not broadcast to
LSTMReset(st, mask) ==
    IF mask.kind = "none" \/ st.prev_h.kind = "none"
    THEN [cell |-> [prev_h |-> NoneT, prev_c |-> NoneT], raised |-> FALSE]
    ELSE IF st.prev_h.kind = "misshaped"
    THEN [cell |-> st, raised |-> TRUE]
    ELSE [cell   |-> [prev_h |-> MaskMul(st.prev_h, mask.v), prev_c |-> MaskMul(st.prev_c, mask.v)],
          raised |-> FALSE]

(* The calls made on one cell *)

\* the value of one stream in one frame and the channels it stands for
FrameValues == {0, 2 * Milli, LocNaN}
Channels(v) ==
    [oc \in 1..(4 * HiddenDim) |->
        IF v = LocNaN THEN LocNaN ELSE v - Quot(Milli, 2) * ((oc - 1) % HiddenDim)]
Frames == { [n \in 1..CellBatch |-> Channels(f[n])] : f \in [1..CellBatch -> FrameValues] }

\* a 5-D input [t, n, c, 1, 1] of at most T frames, or a 4-D input [n, c, 1, 1]
CellInputs(T) ==
    UNION { { [dims |-> 5, frames |-> fs] : fs \in [1..t -> Frames] } : t \in 1..T }
      \cup (IF T >= 1 THEN { [dims |-> 4, frames |-> <<f>>] : f \in Frames } ELSE {})

Masks == {[kind |-> "none", v |-> <<>>]}
           \cup { [kind |-> "tensor", v |-> m] : m \in [1..CellBatch -> {0, Milli}] }

FramesFed == IF cellCall = <<>> THEN 0 ELSE Head(cellCall).fed
Recent(call) == <<call>> \o SubSeq(cellCall, 1, IF cellCall = <<>> THEN 0 ELSE 1)
CallsMade == IF cellCall = <<>> THEN 0 ELSE Head(cellCall).nth

CellForward ==
    /\ cell # NoCell /\ CallsMade < MaxCalls
    /\ \E xi \in CellInputs(MaxFrames - FramesFed) :
          \E r \in {LSTMForward(cell, xi)} :
             /\ cell' = r.cell
             /\ cellCall' = Recent([op |-> "forward", xi |-> xi, mask |-> NoneT, before |-> cell,
                                    raised |-> r.raised, out |-> r.out,
                                    fed |-> FramesFed + Len(xi.frames),
                                    nth |-> CallsMade + 1])
    /\ UNCHANGED <<lossVars, anchorVars, detVars, codecVars, rnn, rnnCall, dataVars>>

CellReset ==
    /\ cell # NoCell /\ CallsMade < MaxCalls
    /\ \E mask \in Masks :
          \E r \in {LSTMReset(cell, mask)} :
             /\ cell' = r.cell
             /\ cellCall' = Recent([op |-> "reset", xi |-> [dims |-> 0, frames |-> <<>>],
                                    mask |-> mask, before |-> cell,
                                    raised |-> r.raised, out |-> <<>>,
                                    fed |-> FramesFed,
                                    nth |-> CallsMade + 1])
    /\ UNCHANGED <<lossVars, anchorVars, detVars, codecVars, rnn, rnnCall, dataVars>>

\* ConvLSTMCell.__init__ ends with self.reset()
CellInit ==
    /\ cell = [prev_h |-> NoneT, prev_c |-> NoneT]
    /\ cellCall = <<>>
    /\ rnn = NoRnn /\ rnnCall = NoRnn

CellNext == CellForward \/ CellReset

InitCell == LossIdle /\ AnchorIdle /\ DetIdle /\ CodecIdle /\ CellInit /\ DataIdle

SpecCell == InitCell /\ [][CellNext]_vars

-----------------------------------------------------------------------------
(* Properties of the state carried by ConvLSTMCell *)

LastCall == Head(cellCall)
CellForwarded == cellCall # <<>> /\ LastCall.op = "forward"
CellWasReset  == cellCall # <<>> /\ LastCall.op = "reset"

\* a 5-D input of the frames a..b of xi
FramesOfInput(xi, a, b) == [dims |-> 5, frames |-> SubSeq(xi.frames, a, b)]

\* C26: a forward call on T frames returns the same outputs and leaves the
\* same (prev_h, prev_c) as a forward call on the first k frames followed,
\* without a reset, by a forward call on the remaining T - k, for 0 < k < T.
C26_StateCarriedAcrossCalls ==
    (CellForwarded /\ LastCall.xi.dims = 5) =>
        \A k \in 1..(Len(LastCall.xi.frames) - 1) :
            LET first == LSTMForward(LastCall.before, FramesOfInput(LastCall.xi, 1, k))
                rest  == LSTMForward(first.cell,
                                     FramesOfInput(LastCall.xi, k + 1, Len(LastCall.xi.frames)))
            IN  /\ first.out \o rest.out = LastCall.out
                /\ rest.cell = cell
                /\ rest.raised = LastCall.raised

\* two frames fed to a cell that already holds a state, with outputs that
\* differ from frame to frame
C26_Witness ==
    /\ CellForwarded /\ LastCall.xi.dims = 5
    /\ Len(LastCall.xi.frames) = 2
    /\ LastCall.before.prev_h.kind = "tensor"
    /\ ~LastCall.raised
    /\ LastCall.out[1] # LastCall.out[2]
    /\ cell.prev_h.v = LastCall.out[2]

\* the all-zero (h, c) of a batch of CellBatch streams
ZeroState ==
    [prev_h |-> TensorT([n \in 1..CellBatch |-> [k \in 1..HiddenDim |-> 0]]),
     prev_c |-> TensorT([n \in 1..CellBatch |-> [k \in 1..HiddenDim |-> 0]])]

\* what stream n sees of a forward call: its outputs and its final state
StreamOf(r, xi, n) ==
    [raised |-> r.raised,
     out    |-> IF r.raised THEN <<>>
                ELSE IF xi.dims = 5 THEN [t \in DOMAIN r.out |-> r.out[t][n]] ELSE r.out[n],
     h      |-> IF r.cell.prev_h.kind = "tensor" THEN r.cell.prev_h.v[n] ELSE <<>>,
     c      |-> IF r.cell.prev_c.kind = "tensor" THEN r.cell.prev_c.v[n] ELSE <<>>]

Cleared == cell.prev_h.kind = "none" /\ cell.prev_c.kind = "none"

\* C27: reset() without a mask, or on a cell without state, clears the state
\* and the next forward runs from an all-zero (h, c); reset(mask) on a cell
\* with state multiplies h and c by the mask; in the forward call that
\* follows it a stream of mask 0 sees what it sees after a full reset and a
\* stream of mask 1 what it sees without any reset.
C27_ResetSemantics ==
    /\ (CellWasReset /\ (LastCall.mask.kind = "none" \/ LastCall.before.prev_h.kind = "none"))
          => Cleared
    /\ (CellForwarded /\ LastCall.before.prev_h.kind = "none")
          => /\ ~LastCall.raised
             /\ LastCall.out = LSTMForward(ZeroState, LastCall.xi).out
             /\ cell = LSTMForward(ZeroState, LastCall.xi).cell
    /\ (CellWasReset /\ LastCall.mask.kind = "tensor" /\ LastCall.before.prev_h.kind = "tensor")
          => /\ cell.prev_h = MaskMul(LastCall.before.prev_h, LastCall.mask.v)
             /\ cell.prev_c = MaskMul(LastCall.before.prev_c, LastCall.mask.v)
    /\ (/\ CellForwarded /\ Len(cellCall) = 2
        /\ cellCall[2].op = "reset" /\ cellCall[2].mask.kind = "tensor"
        /\ cellCall[2].before.prev_h.kind = "tensor")
          => \A n \in 1..CellBatch :
                LET seen    == StreamOf([cell |-> cell, raised |-> LastCall.raised,
                                          out |-> LastCall.out], LastCall.xi, n)
                    cleared == StreamOf(LSTMForward([prev_h |-> NoneT, prev_c |-> NoneT],
                                                    LastCall.xi), LastCall.xi, n)
                    kept    == StreamOf(LSTMForward(cellCall[2].before, LastCall.xi),
                                        LastCall.xi, n)
                IN  /\ cellCall[2].mask.v[n] = 0 => seen = cleared
                    /\ cellCall[2].mask.v[n] = Milli => seen = kept

-----------------------------------------------------------------------------
(* ConvRNN: an input convolution followed by the recurrent cell named by the
   key `cell`.  Tensors are known here by their shape, a hidden state also
   by the mask it was last multiplied with *)

RnnMaxT == 2     \* frames of one ConvRNN.forward call

CellKeys    == {"gru", "nbrb", "alstm", "lstm", "nBRB"}
InChannels  == {1, 3}
OutChannels == {2, 4, 8}

\* the class that ConvRNN.__init__ names for a key; ConvnBRBCell is a name
\* that no class of the module defines (the class is called ConvnBRCCell)
CellClass(key) ==
    IF key = "gru" THEN "ConvGRUCell"
    ELSE IF key = "nbrb" THEN "ConvnBRBCell"
    ELSE IF key = "alstm" THEN "ConvALSTMCell"
    ELSE "ConvLSTMCell"

DefinedClasses == {"ConvLSTMCell", "ConvALSTMCell", "ConvGRUCell", "ConvnBRCCell"}

\* factor of conv_x2h
Factor(key) ==
    IF key = "gru" \/ key = "nbrb" THEN 3 ELSE IF key = "alstm" THEN 1 ELSE 4

\* the constructor of the cell class raises: the name is undefined, or
\* nn.Conv2d(hidden_dim, 4 * hidden_dim, groups=4) of ConvLSTMCell gets a
\* hidden_dim that 4 does not divide
CellNewRaises(key, out_channels) ==
    \/ CellClass(key) \notin DefinedClasses
    \/ CellClass(key) = "ConvLSTMCell" /\ out_channels % Groups # 0

\* ConvRNN(in_channels, out_channels, cell=key): every cell class ends its
\* constructor with self.reset()
ConvRNNNew(key, in_channels, out_channels) ==
    IF CellNewRaises(key, out_channels)
    THEN [op |-> "ConvRNN", cell |-> key, constructed |-> FALSE,
          timepool |-> "none",
          in_channels |-> in_channels, out_channels |-> out_channels,
          prev_h |-> [kind |-> "none", shape |-> <<>>, mask |-> <<>>]]
    ELSE [op |-> "ConvRNN", cell |-> key, constructed |-> TRUE,
          timepool |-> CellClass(key),
          in_channels |-> in_channels, out_channels |-> out_channels,
          prev_h |-> [kind |-> "none", shape |-> <<>>, mask |-> <<>>]]

\* the shape of conv_x2h(x) for x of shape [t, n, in_channels, h, w]: 3 x 3,
\* stride 1, padding 1
ConvX2H(r, shape) ==
    <<shape[1], shape[2], Factor(r.cell) * r.out_channels, shape[4], shape[5]>>

\* forward of the timepool on an input of the given 5-D shape.  ConvGRUCell
\* (and ConvnBRCCell) without a state read x.device, x being no name of
\* the method, before prev_h is assigned
TimepoolForward(r, shape) ==
    IF r.timepool \in {"ConvGRUCell", "ConvnBRCCell"} /\ r.prev_h.kind = "none"
    THEN [rnn |-> r, raised |-> TRUE, out |-> <<>>]
    ELSE [rnn    |-> [r EXCEPT !.prev_h =
                        [kind  |-> "tensor",
                         shape |-> <<shape[2], r.out_channels, shape[4], shape[5]>>,
                         mask  |-> <<>>]],
          raised |-> FALSE,
          out    |-> <<shape[1], shape[2], r.out_channels, shape[4], shape[5]>>]

\* ConvRNN.forward(x)
ConvRNNForward(r, shape) ==
    IF r.cell = "alstm" THEN TimepoolForward(r, shape)
    ELSE TimepoolForward(r, ConvX2H(r, shape))

\* ConvRNN.reset(mask): self.timepool.reset(mask).  reset of ConvGRUCell
\* and ConvnBRCCell takes no mask
ConvRNNReset(r, mask) ==
    IF r.timepool \in {"ConvGRUCell", "ConvnBRCCell"}
    THEN [rnn |-> r, raised |-> TRUE]
    ELSE IF r.prev_h.kind = "none"
    THEN [rnn |-> r, raised |-> FALSE]
    ELSE [rnn |-> [r EXCEPT !.prev_h.mask = mask], raised |-> FALSE]

(* The calls made on one ConvRNN *)

RnnShapes == { <<t, CellBatch, c, 1, 1>> : t \in 1..RnnMaxT, c \in InChannels }
RnnMasks  == [1..CellBatch -> {0, 1}]

RnnNew ==
    /\ rnn = NoRnn
    /\ \E key \in CellKeys, cin \in InChannels, cout \in OutChannels :
          /\ rnn' = ConvRNNNew(key, cin, cout)
          /\ rnnCall' = [op |-> "ConvRNN", raised |-> ~rnn'.constructed,
                         shape |-> <<>>, mask |-> <<>>, out |-> <<>>]
    /\ UNCHANGED <<lossVars, anchorVars, detVars, codecVars, cell, cellCall, dataVars>>

RnnForward ==
    /\ rnn # NoRnn /\ rnn.constructed
    /\ \E shape \in RnnShapes :
          /\ shape[3] = rnn.in_channels
          /\ \E r \in {ConvRNNForward(rnn, shape)} :
                /\ rnn' = r.rnn
                /\ rnnCall' = [op |-> "forward", raised |-> r.raised,
                               shape |-> shape, mask |-> <<>>, out |-> r.out]
    /\ UNCHANGED <<lossVars, anchorVars, detVars, codecVars, cell, cellCall, dataVars>>

RnnReset ==
    /\ rnn # NoRnn /\ rnn.constructed
    /\ \E mask \in RnnMasks :
          \E r \in {ConvRNNReset(rnn, mask)} :
             /\ rnn' = r.rnn
             /\ rnnCall' = [op |-> "reset", raised |-> r.raised,
                            shape |-> <<>>, mask |-> mask, out |-> <<>>]
    /\ UNCHANGED <<lossVars, anchorVars, detVars, codecVars, cell, cellCall, dataVars>>

RnnNext == RnnNew \/ RnnForward \/ RnnReset

InitRnn == LossIdle /\ AnchorIdle /\ DetIdle /\ CodecIdle /\ RestIdle

SpecRnn == InitRnn /\ [][RnnNext]_vars

\* C28: for every cell key the construction succeeds, a forward call
\* completes, and reset(mask) completes and leaves the cell without state
\* or with its state multiplied by the mask.
C28_EveryCellKindOperable ==
    /\ rnnCall.op # "none" => ~rnnCall.raised
    /\ rnnCall.op = "reset" =>
          (rnn.prev_h.kind = "none" \/ rnn.prev_h.mask = rnnCall.mask)

-----------------------------------------------------------------------------
(* MnistEnv: a group of animated streams that restart together.  An
   animation is known by the number of frames it has drawn since its last
   reset, and a frame by that number *)

MaxEpoch   == 3    \* epoch ranges over 0..MaxEpoch
MaxEnvs    == 2    \* num_envs ranges over 1..MaxEnvs
MaxTbins   == 3    \* tbins of a call ranges over 1..MaxTbins

MaxStepsArgs == {0, 5, 500}    \* the argument max_steps

\* MovingMnistAnimation.reset(): new objects, nothing drawn yet
AnimReset(age) == 0

\* MovingMnistAnimation.run(): the next frame of the animation
AnimRun(age) == age + 1

\* the frames of tbins consecutive run() calls
AnimFrames(age, tbins) == [t \in 1..tbins |-> AnimRun(age + t - 1)]

\* MnistEnv(num_envs=num_envs, epoch=epoch, max_steps=max_steps)
MnistEnvNew(num_envs, epoch, max_steps) ==
    [op        |-> "MnistEnv",
     envs      |-> [i \in 1..num_envs |-> AnimReset(0)],
     max_steps |-> IF Pow2(epoch) <= max_steps \div 2 THEN Pow2(epoch) ELSE max_steps \div 2,
     step      |-> 0]

\* (mutant of ResetDue) the streams restart as soon as step reaches max_steps
ResetDueAtLimit(e) == e.step >= e.max_steps

\* reset = self.step > self.max_steps
ResetDue(e) == e.step > e.max_steps

\* MnistEnv.next(arrays) with arrays.shape[1] = tbins: the environment it
\* leaves, the frames written to arrays and the resets returned
MnistEnvNext(e, tbins) ==
    LET reset == ResetDue(e)
        step0 == IF reset THEN 0 ELSE e.step
        envs0 == IF reset THEN [i \in DOMAIN e.envs |-> AnimReset(e.envs[i])] ELSE e.envs
    IN  [env    |-> [e EXCEPT !.step = step0 + tbins,
                              !.envs = [i \in DOMAIN e.envs |-> envs0[i] + tbins]],
         arrays |-> [i \in DOMAIN e.envs |-> AnimFrames(envs0[i], tbins)],
         resets |-> [i \in DOMAIN e.envs |-> reset]]

EnvNext ==
    /\ env # NoEnv
    /\ \E tbins \in 1..MaxTbins :
          \E r \in {MnistEnvNext(env, tbins)} :
             /\ env' = r.env
             /\ envCall' = [op |-> "next", tbins |-> tbins, before |-> env,
                            arrays |-> r.arrays, resets |-> r.resets,
                            \* frames drawn by the calls made since the last
                            \* call that reported a reset, that call included
                            drawn |-> IF r.resets[1] THEN tbins
                                      ELSE (IF envCall.op = "next" THEN envCall.drawn ELSE 0) + tbins,
                            \* frames drawn between the last two reports
                            gap   |-> IF envCall.op = "next" THEN envCall.drawn ELSE 0]
    /\ UNCHANGED <<lossVars, anchorVars, detVars, codecVars, rnnVars, batch, collated>>

EnvInit ==
    /\ \E num_envs \in 1..MaxEnvs, epoch \in 0..MaxEpoch, max_steps \in MaxStepsArgs :
          env = MnistEnvNew(num_envs, epoch, max_steps)
    /\ envCall = NoEnv
    /\ batch = <<>> /\ collated = NoEnv

InitEnv == LossIdle /\ AnchorIdle /\ DetIdle /\ CodecIdle /\ RnnIdle /\ EnvInit

SpecEnv == InitEnv /\ [][EnvNext]_vars

-----------------------------------------------------------------------------
(* Properties of the step / reset protocol of MnistEnv.next *)

Stepped == envCall.op = "next"

\* C29: a call that starts with step > max_steps sets the counter to 0 and
\* resets every animation before any frame is drawn, and reports True for
\* every stream; any other call resets nothing and reports False; in both
\* the counter then grows by tbins.  After every call
\* 0 < step <= max_steps + tbins, and between two reports of a reset at
\* least max_steps frames are drawn.
C29_StepResetProtocol ==
    Stepped =>
        LET b == envCall.before
            due == b.step > b.max_steps
        IN  /\ envCall.resets = [i \in DOMAIN b.envs |-> due]
            /\ due => /\ env.step = envCall.tbins
                      /\ \A i \in DOMAIN b.envs :
                            envCall.arrays[i] = [t \in 1..envCall.tbins |-> t]
            /\ ~due => /\ env.step = b.step + envCall.tbins
                       /\ \A i \in DOMAIN b.envs :
                             envCall.arrays[i] = [t \in 1..envCall.tbins |-> b.envs[i] + t]
            /\ 0 < env.step /\ env.step <= env.max_steps + envCall.tbins
            /\ due => envCall.gap >= env.max_steps

\* two streams restart in a call of two frames after having drawn frames
C29_Witness ==
    /\ Stepped
    /\ envCall.before.step > envCall.before.max_steps
    /\ envCall.before.max_steps >= 2
    /\ Len(envCall.before.envs) = 2 /\ envCall.before.envs[2] > 2
    /\ envCall.tbins = 2
    /\ envCall.resets = <<TRUE, TRUE>>
    /\ env.envs = <<2, 2>>

-----------------------------------------------------------------------------
(* collate_fn: from the samples of the streams to a time-major batch *)

MaxStreams == 2    \* n, the streams of a batch
MaxBins    == 2    \* t, the frames of a sample
ImgW       == 2    \* width of a frame (its height is 1)
ImgC       == 2    \* channels of a frame

\* the frame of stream n at time t as an array [h, w, c]
Image(seed, n, t) ==
    << [w \in 1..ImgW |-> [c \in 1..ImgC |-> seed + 100 * n + 10 * t + 2 * w + c]] >>

\* the boxes of one frame: rows (x1, y1, x2, y2, label)
FrameBoxes == { <<>>, << <<0, 0, 4, 4, 1>> >>, << <<0, 0, 4, 4, 1>>, <<2, 2, 8, 8, 3>> >> }

\* what the streamer hands to collate_fn: data [n, t, h, w, c], boxes[n][t]
\* and one reset flag per stream
Samples ==
    UNION { { [data   |-> [i \in 1..n |-> [k \in 1..t |-> Image(seed, i, k)]],
               boxes  |-> bx,
               resets |-> rs] :
                  seed \in {0, 1000}, bx \in [1..n -> [1..t -> FrameBoxes]], rs \in [1..n -> BOOLEAN] } :
            n \in 1..MaxStreams, t \in 1..MaxBins }

\* torch.from_numpy(batch).permute(1, 0, 4, 2, 3)
Permute(a) ==
    [k \in DOMAIN a[1] |-> [i \in DOMAIN a |->
        [c \in DOMAIN a[i][k][1][1] |-> [h \in DOMAIN a[i][k] |->
            [w \in DOMAIN a[i][k][h] |-> a[i][k][h][w][c]]]]]]

\* (mutant of CollateBoxes) the boxes stay stream-major
CollateBoxesStreamMajor(boxes, t, n) ==
    [i \in 1..n |-> [k \in 1..t |-> boxes[i][k]]]

\* [[torch.from_numpy(boxes[i][t]) for i in range(n)] for t in range(t)]
CollateBoxes(boxes, t, n) ==
    [k \in 1..t |-> [i \in 1..n |-> boxes[i][k]]]

\* torch.FloatTensor(resets): True is 1.0, False is 0.0
FloatOf(flag) == IF flag THEN Milli ELSE 0

\* resets = 1 - torch.FloatTensor(resets); resets[:, None, None, None]
CollateResets(resets) ==
    [i \in DOMAIN resets |-> << << <<Milli - FloatOf(resets[i])>> >> >>]

\* collate_fn(data)
CollateFn(data) ==
    LET out == Permute(data.data)
        t   == Len(out)
        n   == Len(out[1])
    IN  [op     |-> "collate_fn",
         data   |-> out,
         boxes  |-> CollateBoxes(data.boxes, t, n),
         resets |-> CollateResets(data.resets)]

Collate ==
    /\ batch # <<>> /\ collated = NoEnv
    /\ collated' = CollateFn(batch[1])
    /\ UNCHANGED <<lossVars, anchorVars, detVars, codecVars, rnnVars, env, envCall, batch>>

CollateInit ==
    /\ \E data \in Samples : batch = <<data>>
    /\ collated = NoEnv
    /\ env = NoEnv /\ envCall = NoEnv

CollateNext == Collate

InitCollate == LossIdle /\ AnchorIdle /\ DetIdle /\ CodecIdle /\ RnnIdle /\ CollateInit

SpecCollate == InitCollate /\ [][CollateNext]_vars

\* the hidden state of a cell of hidden_dim 1 that holds stream i's index
StateOfStreams(n) == TensorT([i \in 1..n |-> <<Milli * i>>])

\* C30: the batch is time-major with unchanged content: boxes[t][n] of the
\* output is boxes[n][t] of the input and data[t][n][c][h][w] of the output
\* is data[n][t][h][w][c] of the input; the reset entry of stream n, of
\* shape [1, 1, 1], is 0 exactly when its flag is True and 1 otherwise, so
\* that multiplying a hidden state by it clears exactly the flagged streams.
C30_CollateKeepsContent ==
    collated # NoEnv =>
        LET in == batch[1]
            n  == Len(in.data)
            t  == Len(in.data[1])
        IN  /\ Len(collated.boxes) = t /\ Len(collated.data) = t
            /\ \A k \in 1..t :
                  /\ Len(collated.boxes[k]) = n /\ Len(collated.data[k]) = n
                  /\ \A i \in 1..n :
                        /\ collated.boxes[k][i] = in.boxes[i][k]
                        /\ \A h \in {1}, w \in 1..ImgW, c \in 1..ImgC :
                              collated.data[k][i][c][h][w] = in.data[i][k][h][w][c]
            /\ Len(collated.resets) = n
            /\ \A i \in 1..n :
                  /\ collated.resets[i] = << << <<IF in.resets[i] THEN 0 ELSE Milli>> >> >>
                  /\ MaskMul(StateOfStreams(n), [j \in 1..n |-> collated.resets[j][1][1][1]]).v[i]
                        = IF in.resets[i] THEN <<0>> ELSE <<Milli * i>>

\* two streams of two frames whose boxes all differ in number across the
\* diagonal, the first stream flagged and the second not
C30_Witness ==
    /\ collated # NoEnv
    /\ Len(batch[1].data) = 2 /\ Len(batch[1].data[1]) = 2
    /\ batch[1].boxes[1][2] # batch[1].boxes[2][1]
    /\ collated.boxes[1][2] = batch[1].boxes[2][1]
    /\ batch[1].resets = <<TRUE, FALSE>>
    /\ collated.resets[1][1][1][1] = 0 /\ collated.resets[2][1][1][1] = Milli

=============================================================================
